---------------------------- MODULE Spec2Model ----------------------------
(***************************************************************************)
(* A model of chat2func: schema derivation (schema.py), argument           *)
(* reconstruction (instantiate_type / schema_to_type) and the invocation   *)
(* pipeline (function_call in functions.py).                               *)
(*                                                                         *)
(* Python values and types are tagged records, so that values of different *)
(* Python types can live in one set.  The field `k` is the tag.            *)
(***************************************************************************)
EXTENDS Integers, Sequences, FiniteSets, TLC

VARIABLES
    rc_op,      \* reconstruction run: the entry point, "instantiate_type" | "schema_to_type"
    rc_m,       \* reconstruction run: the module whose copy is run, "schema" | "functions"
    rc_type,    \* reconstruction run: the target type, or the callable of schema_to_type
    rc_value,   \* reconstruction run: the raw value, or the arguments of schema_to_type
    rc_strict,  \* reconstruction run: schema_to_type's strict flag
    rc_scope,   \* reconstruction run: the `scope` argument, {} where none is passed
    rc_pc,      \* "idle" | "ready" | "done"
    rc_out      \* reconstruction run: what the entry point returned or raised

rc_vars == <<rc_op, rc_m, rc_type, rc_value, rc_strict, rc_scope, rc_pc, rc_out>>

VARIABLES
    fc_name,        \* function_call: the `name` argument
    fc_raw,         \* function_call: the `arguments` argument as it was when passed
    fc_caller,      \* the object the caller passed as `arguments`, as it is now
    fc_validate,    \* function_call: the `validate` flag
    fc_from_json,   \* function_call: the `from_json` flag
    fc_return_json, \* function_call: the `return_json` flag
    fc_exc,         \* the exception the registry's `fails` raises: [type, text]
    fc_pc,          \* the statement function_call is at, or "returned" | "raised"
    fc_function,    \* the local `function`
    fc_arguments,   \* the local `arguments`
    fc_bound,       \* the local args/kwargs, as one dict
    fc_result,      \* the local `result`; what is returned when fc_pc = "returned"
    fc_error,       \* the exception that left function_call when fc_pc = "raised"
    fc_calls,       \* how many times line 383 called the callable
    fc_ran,         \* how many times the callable's own body ran
    fc_trace        \* the stages entered so far, in order

VARIABLES
    sch_function,     \* parse_function_params: the `function` argument
    sch_descriptions, \* parse_function_params: the `descriptions` flag
    sch_pc,           \* "ready" before the call, "done" after it
    sch_out           \* what the call returned or raised

sch_vars == <<sch_function, sch_descriptions, sch_pc, sch_out>>

VARIABLES
    memo_wrapper,  \* the JsonSchema wrapper whose __schema__ is requested concurrently
    memo_cache,    \* its _cached_schema: None or the stored dict
    memo_pc,       \* per thread: the statement of __schema__ / _make_schema it is at
    memo_local,    \* per thread: the local `schema` of _make_schema
    memo_ret,      \* per thread: what its last request returned
    memo_reqs      \* per thread: how many requests it has started

memo_vars == <<memo_wrapper, memo_cache, memo_pc, memo_local, memo_ret, memo_reqs>>

VARIABLES
    desc_heap,     \* the JsonSchema objects that exist; the first is the decorated method
    desc_dict,     \* per instance: the wrapper its __dict__ holds under the method's name, or 0
    desc_op,       \* the last operation: "none" | "instance" | "class" | "schema" | "build"
    desc_at,       \* the wrapper the last operation returned or was made on
    desc_out,      \* what the last schema request returned or raised
    desc_first,    \* per wrapper: what its first schema request returned or raised
    desc_stored    \* per instance: the wrapper its first access returned, or 0

desc_vars == <<desc_heap, desc_dict, desc_op, desc_at, desc_out, desc_first, desc_stored>>

VARIABLES
    col_args,      \* the arguments of the collect_functions call
    col_items,     \* the names of the scope the loop has still to go through
    col_functions, \* the names collected so far
    col_pc,        \* "idle" | "loop" | "done"
    col_out        \* what the call returned or raised

col_vars == <<col_args, col_items, col_functions, col_pc, col_out>>

fc_vars == <<fc_name, fc_raw, fc_caller, fc_validate, fc_from_json, fc_return_json, fc_exc, fc_pc,
             fc_function, fc_arguments, fc_bound, fc_result, fc_error, fc_calls, fc_ran,
             fc_trace>>

----------------------------------------------------------------------------
(* Bounds of the model *)

\* integers that occur in raw values: 0..MaxInt
MaxInt == 2
\* nesting depth of the raw objects offered to the self-referential composite
MaxDepth == 3
\* length of the raw sequences offered to tuple and list types
MaxLen == 3

----------------------------------------------------------------------------
(* Python values *)

VNull == [k |-> "null"]
VInt(i) == [k |-> "int", i |-> i]
VFloat(i) == [k |-> "float", x |-> i]
\* float("inf"), which json.loads reads from Infinity: a number beyond every
\* other of the model
Infinity == 10 * (MaxInt + 1)
VInf == VFloat(Infinity)
VStr(s) == [k |-> "str", s |-> s]
VBool(b) == [k |-> "bool", b |-> b]
VList(l) == [k |-> "list", l |-> l]
VTuple(l) == [k |-> "tuple", l |-> l]
VDict(o) == [k |-> "dict", o |-> o]
VInst(cls, f) == [k |-> "inst", cls |-> cls, f |-> f]
VSet(e) == [k |-> "set", e |-> e]
EmptyDict == VDict(<<>>)

(* Python types.  Empty is inspect._empty, which the code uses both for    *)
(* "no annotation" and for "no default".                                   *)
Empty == [k |-> "_empty"]
TAny == [k |-> "Any"]
TNone == [k |-> "NoneType"]
TInt == [k |-> "int"]
TFloat == [k |-> "float"]
TStr == [k |-> "str"]
TBool == [k |-> "bool"]
TEllipsis == [k |-> "Ellipsis"]
TUnion(args) == [k |-> "Union", args |-> args]
TOptional(t) == TUnion(<<t, TNone>>)
TList(t) == [k |-> "List", args |-> <<t>>]
TTuple(args) == [k |-> "Tuple", args |-> args]
TDict(kt, vt) == [k |-> "Dict", args |-> <<kt, vt>>]
TSet(t) == [k |-> "Set", args |-> <<t>>]
TFwd(n) == [k |-> "ForwardRef", name |-> n]
TClass(n) == [k |-> "class", name |-> n]

Param(n, a, d) == [name |-> n, annotation |-> a, default |-> d]

(* The user-defined composites of the test-suite.                          *)
(*   Node      : @dataclass C(a: int, b: Optional["C"] = None)             *)
(*   B         : @dataclass B(a: A, b: int), here with a: Node             *)
(*   ClassTest : class ClassTest: def __init__(self, a: int)               *)
ClassNames == {"Node", "B", "ClassTest"}

(* The functions of the test-suite that function_call is run on.           *)
(*   plusplus(x: float, y: float) -> float      returns x + y              *)
(*   test(a: int, b: bool = False) -> bool      returns a > 0 and b        *)
(*   walk(a: Node) -> bool                      walks the chain            *)
(*   takes(c: ClassTest) -> bool                                           *)
(*   fails() -> bool                            raises                     *)
FunctionNames == {"plusplus", "test", "walk", "takes", "fails"}

Signature(cls) ==
    CASE cls = "Node" -> <<Param("a", TInt, Empty), Param("b", TOptional(TFwd("Node")), VNull)>>
      [] cls = "B" -> <<Param("a", TClass("Node"), Empty), Param("b", TInt, Empty)>>
      [] cls = "ClassTest" -> <<Param("a", TInt, Empty)>>
      [] cls = "plusplus" -> <<Param("x", TFloat, Empty), Param("y", TFloat, Empty)>>
      [] cls = "test" -> <<Param("a", TInt, Empty), Param("b", TBool, VBool(FALSE))>>
      [] cls = "walk" -> <<Param("a", TClass("Node"), Empty)>>
      [] cls = "takes" -> <<Param("c", TClass("ClassTest"), Empty)>>
      [] cls = "fails" -> <<>>

is_dataclass(cls) == cls \in {"Node", "B"}

\* the globals of the module that calls into the package
OuterGlobals == ClassNames

(* Outcomes: err = "none" is a normal return, anything else names the      *)
(* exception class that is raised.                                         *)
Ok(v) == [err |-> "none", val |-> v]
Raise(e) == [err |-> e, val |-> VNull]


----------------------------------------------------------------------------
(* The Python built-ins the code relies on *)

IntLits == 0 .. MaxInt

\* the text int() and float() accept: decimal literals, and "<n>.0" for float
IsIntText(s) == \E i \in IntLits : ToString(i) = s
ParseInt(s) == CHOOSE i \in IntLits : ToString(i) = s
IsFloatText(s) == IsIntText(s) \/ \E i \in IntLits : ToString(i) \o ".0" = s
ParseFloat(s) == CHOOSE i \in IntLits : ToString(i) = s \/ ToString(i) \o ".0" = s

BoolInt(b) == IF b THEN 1 ELSE 0

\* str(value)
PyStr(v) ==
    CASE v.k = "str" -> v.s
      [] v.k = "int" -> ToString(v.i)
      [] v.k = "float" -> IF v = VInf THEN "inf" ELSE ToString(v.x) \o ".0"
      [] v.k = "bool" -> IF v.b THEN "True" ELSE "False"
      [] v.k = "null" -> "None"
      [] OTHER -> "<repr>"

\* bool(value): Python truthiness
Truthy(v) ==
    CASE v.k = "str" -> v.s # ""
      [] v.k = "int" -> v.i # 0
      [] v.k = "float" -> v.x # 0
      [] v.k = "bool" -> v.b
      [] v.k = "null" -> FALSE
      [] v.k \in {"list", "tuple"} -> Len(v.l) > 0
      [] v.k = "dict" -> DOMAIN v.o # {}
      [] v.k = "set" -> v.e # {}
      [] OTHER -> TRUE

\* isinstance(arg, type): arg is a real class, not a typing construct
IsType(t) == t.k \in {"int", "float", "str", "bool", "NoneType", "class"}

\* inspect.isclass(ptype)
isclass(t) == IsType(t)

\* isbuiltin(py_type): its __module__ is builtins
isbuiltin(t) == t.k \in {"int", "float", "str", "bool", "NoneType", "Ellipsis"}

\* isinstance(value, t) for a class t (bool is a subclass of int)
IsInstance(v, t) ==
    CASE t.k = "int" -> v.k \in {"int", "bool"}
      [] t.k = "float" -> v.k = "float"
      [] t.k = "str" -> v.k = "str"
      [] t.k = "bool" -> v.k = "bool"
      [] t.k = "NoneType" -> v.k = "null"
      [] t.k = "class" -> v.k = "inst" /\ v.cls = t.name
      [] OTHER -> FALSE

ParamNames(params) == {params[i].name : i \in 1 .. Len(params)}
ParamOf(params, n) == params[CHOOSE i \in 1 .. Len(params) : params[i].name = n]
Required(params) == {params[i].name : i \in {j \in 1 .. Len(params) : params[j].default = Empty}}

\* Bind with the declared default taken for every parameter that has one,
\* supplied or not
Bind_defaultsFirst(params, o) ==
    IF (DOMAIN o) \ ParamNames(params) # {} THEN Raise("TypeError")
    ELSE IF Required(params) \ (DOMAIN o) # {} THEN Raise("TypeError")
    ELSE Ok(VDict([n \in ParamNames(params) |->
                     IF ParamOf(params, n).default = Empty THEN o[n]
                     ELSE ParamOf(params, n).default]))

\* signature.bind of the keyword arguments, then apply_defaults(): TypeError
\* on an unexpected keyword or a missing required argument.
Bind(params, o) ==
    IF (DOMAIN o) \ ParamNames(params) # {} THEN Raise("TypeError")
    ELSE IF Required(params) \ (DOMAIN o) # {} THEN Raise("TypeError")
    ELSE Ok(VDict([n \in ParamNames(params) |->
                     IF n \in DOMAIN o THEN o[n] ELSE ParamOf(params, n).default]))

\* the constructor call with keyword arguments: the composites above store
\* their arguments as fields.
CallClass(cls, bound) == VInst(cls, bound.o)

(* py_type(value): the direct call with the raw value as sole argument.    *)
Construct(t, v) ==
    CASE t.k = "int" ->
           (CASE v.k = "int" -> Ok(v)
              [] v.k = "bool" -> Ok(VInt(BoolInt(v.b)))
              [] v.k = "float" -> IF v = VInf THEN Raise("OverflowError") ELSE Ok(VInt(v.x))
              [] v.k = "str" -> IF IsIntText(v.s) THEN Ok(VInt(ParseInt(v.s)))
                                ELSE Raise("ValueError")
              [] OTHER -> Raise("TypeError"))
      [] t.k = "float" ->
           (CASE v.k = "int" -> Ok(VFloat(v.i))
              [] v.k = "bool" -> Ok(VFloat(BoolInt(v.b)))
              [] v.k = "float" -> Ok(v)
              [] v.k = "str" -> IF IsFloatText(v.s) THEN Ok(VFloat(ParseFloat(v.s)))
                                ELSE Raise("ValueError")
              [] OTHER -> Raise("TypeError"))
      [] t.k = "str" -> Ok(VStr(PyStr(v)))
      [] t.k = "bool" -> Ok(VBool(Truthy(v)))
      [] t.k = "class" ->
           \* the value is bound to the first positional parameter
           LET params == Signature(t.name)
               first == params[1].name
               b == Bind(params, [n \in {first} |-> v])
           IN  IF b.err = "none" THEN Ok(CallClass(t.name, b.val)) ELSE b
      [] OTHER -> Raise("TypeError")  \* NoneType, typing.Union/List/Tuple/Dict/Set

----------------------------------------------------------------------------
(* pydantic, as the code uses it: TypeAdapter(ptype).validate_python(value) *)
(* in schema_to_type and validate_call(function) in function_call.  The     *)
(* library is not part of the repository; this is its documented lax-mode   *)
(* behaviour on the types above.  `ns` is the namespace in which pydantic   *)
(* resolves forward references: the defining module for the fields of a     *)
(* dataclass or the annotations of a function, nothing for a bare           *)
(* TypeAdapter built inside schema.py.                                      *)

\* what iterating over a value yields; strings of the model have at most one
\* character, and a dict yields its keys
RECURSIVE SetToSeq(_)
SetToSeq(S) ==
    IF S = {} THEN <<>>
    ELSE LET x == CHOOSE y \in S : TRUE IN <<VStr(x)>> \o SetToSeq(S \ {x})

Iterable(v) == v.k \in {"list", "tuple", "str", "dict"}
Items(v) ==
    CASE v.k \in {"list", "tuple"} -> v.l
      [] v.k = "str" -> IF v.s = "" THEN <<>> ELSE <<v>>
      [] v.k = "dict" -> SetToSeq(DOMAIN v.o)

RECURSIVE PydGenerable(_, _, _)
PydGenerable(t, ns, seen) ==
    CASE t.k \in {"Union", "List", "Tuple", "Dict", "Set"} ->
           \A i \in 1 .. Len(t.args) : PydGenerable(t.args[i], ns, seen)
      [] t.k = "ForwardRef" -> t.name \in ns /\ PydGenerable(TClass(t.name), ns, seen)
      [] t.k = "class" ->
           \/ t.name \in seen
           \/ /\ is_dataclass(t.name)
              /\ \A i \in 1 .. Len(Signature(t.name)) :
                   PydGenerable(Signature(t.name)[i].annotation, OuterGlobals,
                                seen \cup {t.name})
      [] OTHER -> TRUE

\* strict-mode acceptance, which a union tries first on every member
PydStrict(t, v) ==
    CASE t.k = "int" -> v.k = "int"
      [] t.k = "float" -> v.k = "float"
      [] t.k \in {"str", "bool", "NoneType", "class"} -> IsInstance(v, t)
      [] t.k = "Any" -> TRUE
      [] OTHER -> FALSE

\* the outcome r, or, where r failed, the outcome `otherwise`
FirstOk(r, otherwise) == IF r.err = "none" THEN r ELSE otherwise

\* the outcomes of a first element and of the rest of a sequence, as one outcome
Cons(r, rest) ==
    IF r.err # "none" THEN r
    ELSE IF rest.err # "none" THEN rest
    ELSE Ok(<<r.val>> \o rest.val)

OkList(r) == IF r.err = "none" THEN Ok(VList(r.val)) ELSE r
OkTuple(r) == IF r.err = "none" THEN Ok(VTuple(r.val)) ELSE r
OkSet(r) == IF r.err = "none" THEN Ok(VSet({r.val[i] : i \in 1 .. Len(r.val)})) ELSE r

\* the dict of the converted keys and values, both in the order of `names`;
\* the mappings of the model have string keys
OkDict(names, keys, vals) ==
    IF keys.err # "none" THEN keys
    ELSE IF vals.err # "none" THEN vals
    ELSE Ok(VDict([n \in {keys.val[i].s : i \in 1 .. Len(names)} |->
                     vals.val[CHOOSE i \in 1 .. Len(names) : keys.val[i].s = n]]))

\* the values of a dict in the order in which Items gives its keys
ValuesIn(o, names) == [i \in 1 .. Len(names) |-> o[names[i].s]]

\* the outcomes of one field and of the fields after it, as one outcome
ConsField(n, r, rest) ==
    IF r.err # "none" THEN r
    ELSE IF rest.err # "none" THEN rest
    ELSE Ok([x \in {n} \cup DOMAIN rest.val |-> IF x = n THEN r.val ELSE rest.val[x]])

\* the dataclass built from its validated fields
PydInstance(cls, r) ==
    IF r.err # "none" THEN r
    ELSE Ok(CallClass(cls, Bind(Signature(cls), r.val).val))

RECURSIVE PydValidate(_, _, _), PydUnion(_, _, _, _), PydItems(_, _, _, _), PydFields(_, _, _, _)
PydValidate(t, v, ns) ==
    CASE t.k \in {"Any", "_empty"} -> Ok(v)
      [] t.k = "int" ->
           IF v # VInf /\ (v.k \in {"int", "bool", "float"} \/ (v.k = "str" /\ IsIntText(v.s)))
           THEN Construct(TInt, v) ELSE Raise("ValidationError")
      [] t.k = "float" ->
           IF v.k \in {"int", "bool", "float"} \/ (v.k = "str" /\ IsFloatText(v.s))
           THEN Construct(TFloat, v) ELSE Raise("ValidationError")
      [] t.k = "str" -> IF v.k = "str" THEN Ok(v) ELSE Raise("ValidationError")
      [] t.k = "bool" ->
           (CASE v.k = "bool" -> Ok(v)
              [] v.k = "int" /\ v.i \in {0, 1} -> Ok(VBool(v.i = 1))
              [] v.k = "float" /\ v.x \in {0, 1} -> Ok(VBool(v.x = 1))
              [] v.k = "str" /\ v.s \in {"0", "1"} -> Ok(VBool(v.s = "1"))
              [] OTHER -> Raise("ValidationError"))
      [] t.k = "NoneType" -> IF v.k = "null" THEN Ok(v) ELSE Raise("ValidationError")
      [] t.k = "Union" ->
           IF \E i \in 1 .. Len(t.args) : PydStrict(t.args[i], v) THEN Ok(v)
           ELSE PydUnion(t.args, 1, v, ns)
      [] t.k = "List" ->
           IF v.k \notin {"list", "tuple"} THEN Raise("ValidationError")
           ELSE OkList(PydItems([i \in 1 .. Len(v.l) |-> t.args[1]], v.l, 1, ns))
      [] t.k = "Tuple" ->
           IF v.k \notin {"list", "tuple"} THEN Raise("ValidationError")
           ELSE IF Len(t.args) = 2 /\ t.args[2] = TEllipsis
           THEN OkTuple(PydItems([i \in 1 .. Len(v.l) |-> t.args[1]], v.l, 1, ns))
           ELSE IF Len(t.args) # Len(v.l) THEN Raise("ValidationError")
           ELSE OkTuple(PydItems(t.args, v.l, 1, ns))
      [] t.k = "Set" ->
           IF v.k \notin {"list", "tuple"} THEN Raise("ValidationError")
           ELSE OkSet(PydItems([i \in 1 .. Len(v.l) |-> t.args[1]], v.l, 1, ns))
      [] t.k = "Dict" ->
           IF v.k # "dict" THEN Raise("ValidationError")
           ELSE OkDict(SetToSeq(DOMAIN v.o),
                       PydItems([i \in 1 .. Cardinality(DOMAIN v.o) |-> t.args[1]],
                                SetToSeq(DOMAIN v.o), 1, ns),
                       PydItems([i \in 1 .. Cardinality(DOMAIN v.o) |-> t.args[2]],
                                ValuesIn(v.o, SetToSeq(DOMAIN v.o)), 1, ns))
      [] t.k = "ForwardRef" ->
           IF t.name \in ns THEN PydValidate(TClass(t.name), v, ns)
           ELSE Raise("PydanticUndefinedAnnotation")
      [] t.k = "class" ->
           (CASE IsInstance(v, t) -> Ok(v)
              [] v.k = "dict" /\ ~IsInstance(v, t) ->
                   IF Required(Signature(t.name)) \ (DOMAIN v.o) # {}
                   THEN Raise("ValidationError")
                   ELSE PydInstance(t.name, PydFields(Signature(t.name), 1, v.o, OuterGlobals))
              [] OTHER -> Raise("ValidationError"))
      [] OTHER -> Raise("ValidationError")

\* the first member of the union that accepts the value in lax mode
PydUnion(args, i, v, ns) ==
    IF i > Len(args) THEN Raise("ValidationError")
    ELSE FirstOk(PydValidate(args[i], v, ns), PydUnion(args, i + 1, v, ns))

\* element-wise validation of a sequence; val is the sequence of results
PydItems(types, items, i, ns) ==
    IF i > Len(items) \/ i > Len(types) THEN Ok(<<>>)
    ELSE Cons(PydValidate(types[i], items[i], ns), PydItems(types, items, i + 1, ns))

\* the fields of a dataclass given as a dict; keys that name no field are ignored
PydFields(params, i, o, ns) ==
    IF i > Len(params) THEN Ok(<<>>)
    ELSE IF params[i].name \notin DOMAIN o THEN PydFields(params, i + 1, o, ns)
    ELSE ConsField(params[i].name,
                   PydValidate(params[i].annotation, o[params[i].name], ns),
                   PydFields(params, i + 1, o, ns))

(* TypeAdapter(ptype).validate_python(value): building the adapter fails   *)
(* for a type pydantic has no schema for, such as a plain class.           *)
TypeAdapterValidate(ptype, value) ==
    IF ~PydGenerable(ptype, {}, {}) THEN Raise("PydanticSchemaGenerationError")
    ELSE PydValidate(ptype, value, {})

----------------------------------------------------------------------------
(* Argument reconstruction.  Both schema.py and functions.py define         *)
(* instantiate_type and schema_to_type; the two copies differ only in how   *)
(* schema_to_type converts one field.  `m` names the copy: "schema" or      *)
(* "functions" (the copy function_call uses).                               *)

TFunction(n) == [k |-> "function", name |-> n]

\* ForwardRef._evaluate(scope, None): NameError when the scope lacks the name
evaluate_forward_ref(ref, scope) ==
    IF ref.name \in scope THEN Ok(TClass(ref.name)) ELSE Raise("NameError")

\* inspect.signature(function): the built-in classes have none, except
\* float, whose signature is the positional-only (x=0, /)
SignatureOf(function) ==
    CASE function.k \in {"class", "function", "validated"} -> Ok(Signature(function.name))
      [] function.k = "float" -> Ok(<<Param("x", Empty, VInt(0))>>)
      [] OTHER -> Raise("ValueError")

\* signature.bind for `function`: float's parameter cannot be passed by keyword
BindFor(function, params, o) ==
    IF function.k = "float" /\ DOMAIN o # {} THEN Raise("TypeError")
    ELSE Bind(params, o)

\* function(*args, **kwargs) for a class (or float) met as a parameter type
CallType(function, bound) ==
    IF function.k = "float" THEN VFloat(0) ELSE CallClass(function.name, bound)

SchemaResult(e, bound, args, warns) == [err |-> e, val |-> bound, args |-> args, warns |-> warns]
FieldResult(e, v, raw) == [err |-> e, val |-> v, raw |-> raw]

\* `scope or _get_outer_globals()`
ScopeOr(scope) == IF scope # {} THEN scope ELSE OuterGlobals

\* the type an annotation stands for: a ForwardRef is evaluated in the scope
ResolveRef(py_type, sc) ==
    IF py_type.k = "ForwardRef" THEN evaluate_forward_ref(py_type, sc) ELSE Ok(py_type)

\* zip(args, value) of the tuple branch: pairs stop at the shorter of the two
TupleTypes(args, items) ==
    IF (Len(args) = 2 /\ args[2] = TEllipsis) \/ Len(args) = 1
    THEN [i \in 1 .. Len(items) |-> args[1]]
    ELSE args

\* py_type(**schema_to_type(py_type, value)) of the composite branch
AsInstance(cls, r) == IF r.err # "none" THEN Raise(r.err) ELSE Ok(CallClass(cls, r.val))

RECURSIVE instantiate_type(_, _, _, _), InstUnion(_, _, _, _, _), InstItems(_, _, _, _, _)
RECURSIVE schema_to_type(_, _, _, _, _), ConvertFields(_, _, _, _, _, _, _), ConvertField(_, _, _, _, _)

\* InstantiateByOrigin with the union's alternatives tried in order at once,
\* without the test for a value that already is of one of them
InstantiateByOrigin_convertFirst(m, t, value, sc, direct) ==
    IF direct.err \notin {"ValueError", "TypeError"} THEN direct
    ELSE CASE t.k = "Union" ->
                InstUnion(m, t.args, 1, value, sc)
           [] t.k = "List" ->
                IF ~Iterable(value) THEN Raise("TypeError")
                ELSE OkList(InstItems(m, [i \in 1 .. Len(Items(value)) |-> t.args[1]],
                                      Items(value), 1, sc))
           [] t.k = "Tuple" ->
                IF ~Iterable(value) THEN Raise("TypeError")
                ELSE OkTuple(InstItems(m, TupleTypes(t.args, Items(value)),
                                       Items(value), 1, sc))
           [] t.k = "Dict" ->
                \* value.items()
                IF value.k # "dict" THEN Raise("AttributeError")
                ELSE OkDict(Items(value),
                            InstItems(m, [i \in 1 .. Len(Items(value)) |-> t.args[1]],
                                      Items(value), 1, sc),
                            InstItems(m, [i \in 1 .. Len(Items(value)) |-> t.args[2]],
                                      ValuesIn(value.o, Items(value)), 1, sc))
           [] t.k = "Set" ->
                IF ~Iterable(value) THEN Raise("TypeError")
                ELSE OkSet(InstItems(m, [i \in 1 .. Len(Items(value)) |-> t.args[1]],
                                     Items(value), 1, sc))
           [] t.k = "class" ->
                \* schema_to_type(py_type, value): the scope is not passed on
                AsInstance(t.name, schema_to_type(m, t, value, {}, TRUE))
           [] OTHER -> Raise("ValueError")

\* instantiate_type after the direct call py_type(value) gave `direct`:
\* a ValueError or TypeError falls through to the branches on the type's origin
InstantiateByOrigin(m, t, value, sc, direct) ==
    IF direct.err \notin {"ValueError", "TypeError"} THEN direct
    ELSE CASE t.k = "Union" ->
                IF \E i \in 1 .. Len(t.args) :
                      IsType(t.args[i]) /\ IsInstance(value, t.args[i])
                THEN Ok(value)
                ELSE InstUnion(m, t.args, 1, value, sc)
           [] t.k = "List" ->
                IF ~Iterable(value) THEN Raise("TypeError")
                ELSE OkList(InstItems(m, [i \in 1 .. Len(Items(value)) |-> t.args[1]],
                                      Items(value), 1, sc))
           [] t.k = "Tuple" ->
                IF ~Iterable(value) THEN Raise("TypeError")
                ELSE OkTuple(InstItems(m, TupleTypes(t.args, Items(value)),
                                       Items(value), 1, sc))
           [] t.k = "Dict" ->
                \* value.items()
                IF value.k # "dict" THEN Raise("AttributeError")
                ELSE OkDict(Items(value),
                            InstItems(m, [i \in 1 .. Len(Items(value)) |-> t.args[1]],
                                      Items(value), 1, sc),
                            InstItems(m, [i \in 1 .. Len(Items(value)) |-> t.args[2]],
                                      ValuesIn(value.o, Items(value)), 1, sc))
           [] t.k = "Set" ->
                IF ~Iterable(value) THEN Raise("TypeError")
                ELSE OkSet(InstItems(m, [i \in 1 .. Len(Items(value)) |-> t.args[1]],
                                     Items(value), 1, sc))
           [] t.k = "class" ->
                \* schema_to_type(py_type, value): the scope is not passed on
                AsInstance(t.name, schema_to_type(m, t, value, {}, TRUE))
           [] OTHER -> Raise("ValueError")

\* instantiate_type once the forward reference, if any, is evaluated
InstantiateRef(m, ref, value, sc) ==
    IF ref.err # "none" THEN ref
    ELSE InstantiateByOrigin(m, ref.val, value, sc, Construct(ref.val, value))

\* instantiate_type without lines 338-339, the answer to None for NoneType
instantiate_type_withoutNone(m, py_type, value, scope) ==
    IF py_type = Empty \/ py_type = TAny THEN Ok(value)
    ELSE InstantiateRef(m, ResolveRef(py_type, ScopeOr(scope)), value, ScopeOr(scope))

instantiate_type(m, py_type, value, scope) ==
    IF py_type = Empty \/ py_type = TAny THEN Ok(value)
    ELSE IF py_type = TNone /\ value = VNull THEN Ok(VNull)
    ELSE InstantiateRef(m, ResolveRef(py_type, ScopeOr(scope)), value, ScopeOr(scope))

\* InstUnion with the failure of an alternative ending the trial
InstUnion_abortOnError(m, args, i, value, sc) ==
    IF i > Len(args) THEN Raise("ValueError")
    ELSE instantiate_type(m, args[i], value, sc)

\* the union's alternatives in declared order; an alternative that raises is skipped
InstUnion(m, args, i, value, sc) ==
    IF i > Len(args) THEN Raise("ValueError")
    ELSE FirstOk(instantiate_type(m, args[i], value, sc),
                 InstUnion(m, args, i + 1, value, sc))

\* instantiate_type(t, v, scope) for t, v in zip(types, items)
InstItems(m, types, items, i, sc) ==
    IF i > Len(items) \/ i > Len(types) THEN Ok(<<>>)
    ELSE Cons(instantiate_type(m, types[i], items[i], sc),
              InstItems(m, types, items, i + 1, sc))

\* arguments[name] = ptype(*args, **kwargs) after the nested schema_to_type gave
\* `nested`; raw is what the supplied object holds afterwards: the nested call
\* converts the fields of a dict in place
ViaClass(t, value, nested) ==
    FieldResult(nested.err,
                IF nested.err = "none" THEN CallType(t, nested.val) ELSE VNull,
                IF value.k = "dict" THEN VDict(nested.args) ELSE value)

\* arguments[name] = instantiate_type(ptype, value, scope)
ViaInst(value, inst) == FieldResult(inst.err, inst.val, value)

\* the branches after the adapter: a class or function goes through a nested
\* schema_to_type (functions.py: a class that is not a builtin), the rest
\* through instantiate_type
ConvertResolved(m, t, value, sc, strict) ==
    IF (m = "schema" \/ ~isbuiltin(t)) /\ (isclass(t) \/ t.k = "function")
    THEN ViaClass(t, value, schema_to_type(m, t, value, sc, strict))
    ELSE ViaInst(value, instantiate_type(m, t, value, sc))

\* schema.py tries TypeAdapter(ptype).validate_python(value) first and falls
\* back on any exception; functions.py has no adapter
ViaAdapter(m, adapted, value, fallback) ==
    IF m = "schema" /\ adapted.err = "none" THEN FieldResult("none", adapted.val, value)
    ELSE fallback

ConvertRef(m, ref, value, sc, strict) ==
    IF ref.err # "none" THEN FieldResult(ref.err, VNull, value)
    ELSE ViaAdapter(m, TypeAdapterValidate(ref.val, value), value,
                    ConvertResolved(m, ref.val, value, sc, strict))

\* the conversion of one supplied field: the body of schema_to_type's outer try
ConvertField(m, ptype, value, sc, strict) ==
    ConvertRef(m, ResolveRef(ptype, sc), value, sc, strict)

\* AfterField with the failed field of a non-strict run removed from the
\* arguments instead of left as it was
AfterField_dropFailed(m, params, i, args, sc, strict, warns, c) ==
    IF c.err = "none"
    THEN ConvertFields(m, params, i + 1, [args EXCEPT ![params[i].name] = c.val], sc, strict, warns)
    ELSE IF strict
    THEN SchemaResult(c.err, VNull, [args EXCEPT ![params[i].name] = c.raw], warns)
    ELSE ConvertFields(m, params, i + 1, [x \in (DOMAIN args) \ {params[i].name} |-> args[x]],
                       sc, strict, warns + 1)

\* the loop body after the conversion of parameter i gave c: the except clause
\* re-raises in strict mode and otherwise logs, arguments[name] keeping what it held
AfterField(m, params, i, args, sc, strict, warns, c) ==
    IF c.err = "none"
    THEN ConvertFields(m, params, i + 1, [args EXCEPT ![params[i].name] = c.val], sc, strict, warns)
    ELSE IF strict
    THEN SchemaResult(c.err, VNull, [args EXCEPT ![params[i].name] = c.raw], warns)
    ELSE ConvertFields(m, params, i + 1, [args EXCEPT ![params[i].name] = c.raw], sc, strict,
                       warns + 1)

\* schema_to_type's loop over signature.parameters, from parameter i on
ConvertFields(m, params, i, args, sc, strict, warns) ==
    IF i > Len(params) THEN SchemaResult("none", VNull, args, warns)
    ELSE IF \/ params[i].name \notin DOMAIN args
            \/ params[i].annotation = Empty
            \/ params[i].annotation = TAny
    THEN ConvertFields(m, params, i + 1, args, sc, strict, warns)
    ELSE AfterField(m, params, i, args, sc, strict, warns,
                    ConvertField(m, params[i].annotation, args[params[i].name], sc, strict))

\* signature.bind of the converted arguments, then apply_defaults()
BindConverted(function, conv, bound) ==
    IF conv.err # "none" THEN conv
    ELSE SchemaResult(bound.err, bound.val, conv.args, conv.warns)

\* the loop of schema_to_type and the binding after it
ConvertAndBind(function, params, conv) ==
    BindConverted(function, conv, BindFor(function, params, conv.args))

schema_to_type(m, function, arguments, scope, strict) ==
    IF arguments.k # "dict" THEN SchemaResult("TypeError", VNull, <<>>, 0)
    ELSE IF SignatureOf(function).err # "none"
    THEN SchemaResult(SignatureOf(function).err, VNull, arguments.o, 0)
    ELSE ConvertAndBind(function, SignatureOf(function).val,
                        ConvertFields(m, SignatureOf(function).val, 1, arguments.o,
                                      ScopeOr(scope), strict, 0))

----------------------------------------------------------------------------
(* Reconstruction runs: one call of instantiate_type or schema_to_type on   *)
(* an input drawn from the sets below.                                      *)

RawInts == {VInt(i) : i \in 1 .. MaxInt}
RawScalars ==
    RawInts \cup {VInt(0), VFloat(0), VFloat(1), VInf, VNull, VStr("a"), VStr("1"), VStr(""),
                  VBool(TRUE), VBool(FALSE)}

\* the elements of raw sequences
RawElems == {VInt(1), VStr("1"), VStr("a")}
RawSeqsOf(n) == [1 .. n -> RawElems]
RawLists == UNION {{VList(l) : l \in RawSeqsOf(n)} : n \in 0 .. MaxLen}

\* {a: i}, {a: i, b: {a: j}}, ...: the raw form of a chain of d Nodes
RECURSIVE RawChains(_)
RawChains(d) ==
    IF d = 1 THEN {VDict([n \in {"a"} |-> i]) : i \in RawInts}
    ELSE {VDict([n \in {"a", "b"} |-> IF n = "a" THEN i ELSE c]) :
            i \in RawInts, c \in RawChains(d - 1)}
RawNodes == UNION {RawChains(d) : d \in 1 .. MaxDepth}

\* the raw form of a ClassTest and of a B, alone, in a list and under a key,
\* and instances that exist already
RawClassTest == VDict([n \in {"a"} |-> VInt(1)])
RawBs == {VDict([n \in {"a", "b"} |-> IF n = "a" THEN c ELSE VInt(1)]) :
            c \in RawChains(1) \cup RawChains(2)}
RawComposites ==
    RawBs \cup {VList(<<RawClassTest>>), VList(<<RawClassTest, VStr("a")>>),
                VDict([n \in {"b"} |-> RawClassTest]),
                VDict([n \in {"a", "b"} |-> IF n = "a" THEN VStr("1") ELSE VStr("a")]),
                VInst("ClassTest", [n \in {"a"} |-> VInt(1)]),
                VInst("Node", [n \in {"a", "b"} |-> IF n = "a" THEN VInt(1) ELSE VNull])}

RawValues == RawScalars \cup RawLists \cup RawNodes \cup RawComposites \cup {EmptyDict}

\* the `scope` argument: not passed, the caller's module namespace, or a
\* namespace that has ClassTest only
Scopes == {{}, ClassNames, {"ClassTest"}}

TargetTypes ==
    {TInt, TFloat, TStr, TBool, TNone, TAny,
     TUnion(<<TInt, TStr>>), TUnion(<<TStr, TInt>>), TUnion(<<TInt, TFloat>>), TOptional(TInt),
     TList(TInt), TTuple(<<TInt, TStr>>), TTuple(<<TInt, TEllipsis>>), TTuple(<<TInt>>),
     TSet(TInt), TDict(TStr, TInt),
     TClass("Node"), TClass("B"), TClass("ClassTest"), TFwd("Node"),
     TList(TClass("ClassTest")), TOptional(TClass("ClassTest")), TDict(TStr, TClass("ClassTest"))}

\* the callables schema_to_type is run on, and the arguments offered to each
Callables == {TFunction(n) : n \in FunctionNames} \cup {TClass(n) : n \in ClassNames}

ArgValues(t) ==
    IF t = TClass("Node") THEN RawNodes \cup {VInt(1)}
    ELSE IF t = TClass("ClassTest") THEN {VDict([n \in {"a"} |-> VInt(1)]), VStr("a")}
    ELSE IF t.k = "Union" THEN RawChains(1) \cup {VNull, VStr("a")}
    ELSE {VInt(1), VInt(-1), VFloat(1), VStr("1"), VStr("a"), VBool(TRUE)}

\* every dict over a subset of the parameter names, and of "extra", which names none
ArgsFor(function) ==
    LET params == Signature(function.name)
        names == ParamNames(params) \cup {"extra"}
        ValuesOf(n) == IF n = "extra" THEN {VInt(1)} ELSE ArgValues(ParamOf(params, n).annotation)
    IN  UNION {{VDict(o) : o \in {f \in [K -> UNION {ValuesOf(n) : n \in K}] :
                                     \A n \in K : f[n] \in ValuesOf(n)}} :
               K \in SUBSET names}

Pending == [err |-> "pending"]

\* one reconstruction call about to be made
RcRequest ==
    /\ rc_pc = "ready"
    /\ rc_out = Pending
    /\ rc_m \in {"schema", "functions"}
    /\ rc_scope \in Scopes
    /\ \/ /\ rc_op = "instantiate_type"
          /\ rc_type \in TargetTypes
          /\ rc_value \in RawValues
          /\ rc_strict = TRUE
       \/ /\ rc_op = "schema_to_type"
          /\ rc_type \in Callables
          /\ rc_value \in ArgsFor(rc_type)
          /\ rc_strict \in BOOLEAN

RcInstantiate ==
    /\ rc_pc = "ready" /\ rc_op = "instantiate_type"
    /\ rc_out' = instantiate_type(rc_m, rc_type, rc_value, rc_scope)
    /\ rc_pc' = "done"
    /\ UNCHANGED <<rc_op, rc_m, rc_type, rc_value, rc_strict, rc_scope>>
    /\ UNCHANGED <<fc_vars, sch_vars, memo_vars, desc_vars, col_vars>>

RcSchemaToType ==
    /\ rc_pc = "ready" /\ rc_op = "schema_to_type"
    /\ rc_out' = schema_to_type(rc_m, rc_type, rc_value, rc_scope, rc_strict)
    /\ rc_pc' = "done"
    /\ UNCHANGED <<rc_op, rc_m, rc_type, rc_value, rc_strict, rc_scope>>
    /\ UNCHANGED <<fc_vars, sch_vars, memo_vars, desc_vars, col_vars>>

vars == <<rc_vars, fc_vars, sch_vars, memo_vars, desc_vars, col_vars>>

RcNext == RcInstantiate \/ RcSchemaToType

\* the variables of a schema build while none is under way
SchIdle ==
    /\ sch_function = VNull /\ sch_descriptions = TRUE /\ sch_pc = "idle" /\ sch_out = Pending

\* the variables of the concurrent schema requests while none is under way
MemoIdle ==
    /\ memo_wrapper = VNull /\ memo_cache = VNull /\ memo_pc = <<>> /\ memo_local = <<>>
    /\ memo_ret = <<>> /\ memo_reqs = <<>>

\* the variables of the method accesses while there is no decorated method
DescIdle ==
    /\ desc_heap = <<>> /\ desc_dict = <<>> /\ desc_op = "none" /\ desc_at = 0
    /\ desc_out = Pending /\ desc_first = <<>> /\ desc_stored = <<>>

\* the variables of a collect_functions call while none is under way
ColIdle ==
    /\ col_args = VNull /\ col_items = <<>> /\ col_functions = {} /\ col_pc = "idle"
    /\ col_out = Pending

WrapIdle == MemoIdle /\ DescIdle /\ ColIdle

\* the variables of a function_call run while none is under way
FcIdle ==
    /\ fc_name = "" /\ fc_raw = VNull /\ fc_caller = VNull /\ fc_validate = FALSE /\ fc_from_json = FALSE
    /\ fc_return_json = FALSE /\ fc_exc = VNull /\ fc_pc = "idle" /\ fc_function = VNull
    /\ fc_arguments = VNull /\ fc_bound = VNull /\ fc_result = VNull /\ fc_error = VNull
    /\ fc_calls = 0 /\ fc_ran = 0 /\ fc_trace = <<>>

RcInit == RcRequest /\ FcIdle /\ SchIdle /\ WrapIdle

SpecReconstruct == RcInit /\ [][RcNext]_vars

----------------------------------------------------------------------------
(* function_call (functions.py): from a name and raw arguments to a result *)
(* or an exception.                                                         *)

\* the `functions` registry handed to function_call
Registry == FunctionNames \cup {"Node"}
RegistryEntry(name) == IF name \in ClassNames THEN TClass(name) ELSE TFunction(name)

\* an exception with the text str(e) gives; Raise(e) has a text of its own below
RaiseWith(e, text) == [err |-> e, val |-> VStr(text)]

\* str(e)
ExcStr(r) == IF r.val.k = "str" THEN r.val.s ELSE "<" \o r.err \o ">"

\* `except Exception` does not catch the exceptions that derive from
\* BaseException only
IsException(e) == e \notin {"KeyboardInterrupt", "SystemExit", "GeneratorExit"}

\* function_call_error with the text of the exception kept out of the message
function_call_error_generic(error, r) ==
    IF r.err = "none" \/ ~IsException(r.err) THEN r
    ELSE IF error # "" THEN RaiseWith("FunctionCallError", error)
    ELSE Ok(VNull)

(* with function_call_error(error): the outcome of the block as it leaves  *)
(* the context manager.                                                     *)
function_call_error(error, r) ==
    IF r.err = "none" \/ ~IsException(r.err) THEN r
    ELSE IF error # "" THEN RaiseWith("FunctionCallError", error \o " " \o ExcStr(r))
    ELSE Ok(VNull)

\* JSON text: well-formed text stands for a document, ill-formed text for none
JsonText(doc) == [k |-> "text", wf |-> TRUE, doc |-> doc]
BadJson == [k |-> "text", wf |-> FALSE, doc |-> VNull]

\* json.loads(arguments)
json_loads(arguments) ==
    IF arguments.k # "text" THEN Raise("TypeError")
    ELSE IF arguments.wf THEN Ok(arguments.doc)
    ELSE RaiseWith("JSONDecodeError", "Unterminated string")

\* what json.dumps can encode, and the document it writes: a tuple becomes an array
RECURSIVE Serializable(_), JsonForm(_)
Serializable(v) ==
    CASE v.k \in {"null", "int", "float", "str", "bool"} -> TRUE
      [] v.k \in {"list", "tuple"} -> \A i \in 1 .. Len(v.l) : Serializable(v.l[i])
      [] v.k = "dict" -> \A n \in DOMAIN v.o : Serializable(v.o[n])
      [] OTHER -> FALSE

JsonForm(v) ==
    CASE v.k \in {"list", "tuple"} -> VList([i \in 1 .. Len(v.l) |-> JsonForm(v.l[i])])
      [] v.k = "dict" -> VDict([n \in DOMAIN v.o |-> JsonForm(v.o[n])])
      [] OTHER -> v

json_dumps(v) == IF Serializable(v) THEN Ok(JsonText(JsonForm(v))) ELSE Raise("TypeError")

\* the walk of test_recursive_function: every assert on the chain from a on
RECURSIVE WalkAsserts(_)
WalkAsserts(a) ==
    /\ IsInstance(a, TClass("Node"))
    /\ IsInstance(a.f.a, TInt)
    /\ a.f.b # VNull => WalkAsserts(a.f.b)

\* the body of each callable of the registry, run on its bound arguments
Body(name, bound, exc) ==
    CASE name = "plusplus" ->
           IF bound.x.k = "float" /\ bound.y.k = "float"
           THEN Ok(VFloat(bound.x.x + bound.y.x)) ELSE Raise("TypeError")
      [] name = "test" ->
           IF bound.a.k # "int" THEN Raise("TypeError")
           ELSE IF bound.a.i > 0 THEN Ok(bound.b) ELSE Ok(VBool(FALSE))
      [] name = "walk" ->
           IF WalkAsserts(bound.a) THEN Ok(VBool(TRUE)) ELSE Raise("AssertionError")
      [] name = "takes" ->
           IF IsInstance(bound.c, TClass("ClassTest")) THEN Ok(VBool(TRUE))
           ELSE Raise("AssertionError")
      [] name = "fails" -> RaiseWith(exc.type, exc.text)
      [] name \in ClassNames -> Ok(VInst(name, bound))

\* validate_call(function): the wrapper cannot be built when pydantic has no
\* schema for a parameter's annotation
Wrappable(name) ==
    \A i \in 1 .. Len(Signature(name)) :
       PydGenerable(Signature(name)[i].annotation, OuterGlobals, {})

\* the wrapper validate_call returns: the arguments are validated against the
\* annotations and the function runs on the validated values
ValidatedBody(name, checked, exc) ==
    IF checked.err # "none" THEN checked ELSE Body(name, checked.val, exc)

\* function(*args, **kwargs)
CallFunction(function, bound, exc) ==
    IF function.k = "validated"
    THEN ValidatedBody(function.name,
                       PydFields(Signature(function.name), 1, bound.o, OuterGlobals), exc)
    ELSE Body(function.name, bound.o, exc)

\* the instances of class cls inside a value: each was built by one run of
\* the constructor
RECURSIVE CountInst(_, _), CountIn(_, _, _), CountSeq(_, _, _)
CountInst(v, cls) ==
    CASE v.k = "inst" -> (IF v.cls = cls THEN 1 ELSE 0) + CountIn(v.f, DOMAIN v.f, cls)
      [] v.k = "dict" -> CountIn(v.o, DOMAIN v.o, cls)
      [] v.k \in {"list", "tuple"} -> CountSeq(v.l, 1, cls)
      [] OTHER -> 0

CountIn(o, keys, cls) ==
    IF keys = {} THEN 0
    ELSE CountInst(o[CHOOSE n \in keys : TRUE], cls)
           + CountIn(o, keys \ {CHOOSE n \in keys : TRUE}, cls)

CountSeq(l, i, cls) ==
    IF i > Len(l) THEN 0 ELSE CountInst(l[i], cls) + CountSeq(l, i + 1, cls)

\* the exceptions the registry's `fails` is made to raise
Excs ==
    {[type |-> "AssertionError", text |-> ""],
     [type |-> "ZeroDivisionError", text |-> "division by zero"],
     [type |-> "ZeroDivisionError", text |-> "float division by zero"],
     [type |-> "SystemExit", text |-> "1"]}
NoExc == [type |-> "none", text |-> ""]

\* the parsed arguments offered under a name
DocsFor(name) ==
    IF name \in Registry THEN ArgsFor(RegistryEntry(name)) \cup {VInt(1)}
    ELSE {EmptyDict}

\* one call function_call(name, arguments, functions, validate, from_json,
\* return_json) about to be made
FcRequest ==
    /\ fc_name \in Registry \cup {"t"}
    /\ fc_validate \in BOOLEAN
    /\ fc_from_json \in BOOLEAN
    /\ fc_return_json \in BOOLEAN
    /\ fc_raw \in IF fc_from_json
                  THEN {JsonText(d) : d \in DocsFor(fc_name)} \cup {BadJson}
                  ELSE DocsFor(fc_name)
    /\ fc_exc \in IF fc_name = "fails" THEN Excs ELSE {NoExc}
    /\ fc_pc = "resolve"
    /\ fc_caller = fc_raw
    /\ fc_function = VNull /\ fc_arguments = fc_raw /\ fc_bound = VNull
    /\ fc_result = VNull /\ fc_error = VNull
    /\ fc_calls = 0 /\ fc_ran = 0 /\ fc_trace = <<>>

\* the variables of a reconstruction run while none is under way
RcIdle ==
    /\ rc_op = "none" /\ rc_m = "functions" /\ rc_type = Empty /\ rc_value = VNull
    /\ rc_strict = TRUE /\ rc_scope = {} /\ rc_pc = "idle" /\ rc_out = Pending

FcInit == FcRequest /\ RcIdle /\ SchIdle /\ WrapIdle

\* what a step of function_call leaves alone
FcKeeps == UNCHANGED <<fc_name, fc_raw, fc_validate, fc_from_json, fc_return_json, fc_exc>>

\* an exception leaves function_call
FcRaises(r) ==
    /\ fc_pc' = "raised"
    /\ fc_error' = r

\* FcResolve with the lookup outside function_call_error: the KeyError of a
\* missing name reaches the caller as it is
FcResolve_unguarded ==
    /\ fc_pc = "resolve"
    /\ fc_trace' = Append(fc_trace, "resolve")
    /\ IF fc_name \in Registry
       THEN /\ fc_function' = RegistryEntry(fc_name)
            /\ fc_pc' = "wrap"
            /\ UNCHANGED fc_error
       ELSE /\ FcRaises(RaiseWith("KeyError", "'" \o fc_name \o "'"))
            /\ UNCHANGED fc_function
    /\ UNCHANGED <<fc_caller, fc_arguments, fc_bound, fc_result, fc_calls, fc_ran>>
    /\ FcKeeps /\ UNCHANGED <<rc_vars, sch_vars, memo_vars, desc_vars, col_vars>>

\* lines 366-367: function = functions[name]
FcResolve ==
    /\ fc_pc = "resolve"
    /\ fc_trace' = Append(fc_trace, "resolve")
    /\ IF fc_name \in Registry
       THEN /\ fc_function' = RegistryEntry(fc_name)
            /\ fc_pc' = "wrap"
            /\ UNCHANGED fc_error
       ELSE /\ FcRaises(function_call_error("Function " \o fc_name \o " not found.",
                                            RaiseWith("KeyError", "'" \o fc_name \o "'")))
            /\ UNCHANGED fc_function
    /\ UNCHANGED <<fc_caller, fc_arguments, fc_bound, fc_result, fc_calls, fc_ran>>
    /\ FcKeeps /\ UNCHANGED <<rc_vars, sch_vars, memo_vars, desc_vars, col_vars>>

\* lines 369-373: under validate, a class is only logged about and a function
\* is replaced by validate_call(function), outside any function_call_error
FcWrap ==
    /\ fc_pc = "wrap"
    /\ IF ~fc_validate \/ fc_function.k = "class"
       THEN /\ fc_pc' = "parse"
            /\ UNCHANGED <<fc_function, fc_error, fc_trace>>
       ELSE /\ fc_trace' = Append(fc_trace, "wrap")
            /\ IF Wrappable(fc_function.name)
               THEN /\ fc_function' = [k |-> "validated", name |-> fc_function.name]
                    /\ fc_pc' = "parse"
                    /\ UNCHANGED fc_error
               ELSE /\ FcRaises(Raise("PydanticSchemaGenerationError"))
                    /\ UNCHANGED fc_function
    /\ UNCHANGED <<fc_caller, fc_arguments, fc_bound, fc_result, fc_calls, fc_ran>>
    /\ FcKeeps /\ UNCHANGED <<rc_vars, sch_vars, memo_vars, desc_vars, col_vars>>

\* lines 375-377: arguments = json.loads(arguments)
FcParse ==
    /\ fc_pc = "parse"
    /\ IF ~fc_from_json
       THEN /\ fc_pc' = "reconstruct"
            /\ UNCHANGED <<fc_arguments, fc_error, fc_trace>>
       ELSE /\ fc_trace' = Append(fc_trace, "parse")
            /\ IF json_loads(fc_arguments).err = "none"
               THEN /\ fc_arguments' = json_loads(fc_arguments).val
                    /\ fc_pc' = "reconstruct"
                    /\ UNCHANGED fc_error
               ELSE /\ FcRaises(function_call_error("Arguments are not valid JSON.",
                                                    json_loads(fc_arguments)))
                    /\ UNCHANGED fc_arguments
    /\ UNCHANGED <<fc_caller, fc_function, fc_bound, fc_result, fc_calls, fc_ran>>
    /\ FcKeeps /\ UNCHANGED <<rc_vars, sch_vars, memo_vars, desc_vars, col_vars>>

\* FcReconstruct once schema_to_type gave r.  The conversion writes into the
\* dict it is given, which without from_json is the caller's own object.  The
\* constructor of a class that is itself the callable has by then run once for
\* every instance of it among the bound arguments.
FcReconstructed(r) ==
    /\ fc_arguments' = IF fc_arguments.k = "dict" THEN VDict(r.args) ELSE fc_arguments
    /\ fc_caller' = IF fc_from_json THEN fc_caller ELSE fc_arguments'
    \* the instances of the target class built for nested values, also by a
    \* run that fails afterwards
    /\ fc_ran' = fc_ran + (IF fc_arguments.k = "dict"
                           THEN CountInst(VDict(r.args), fc_function.name) ELSE 0)
    /\ IF r.err = "none"
       THEN /\ fc_bound' = r.val
            /\ fc_pc' = "invoke"
            /\ UNCHANGED fc_error
       ELSE /\ FcRaises(function_call_error("Arguments do not match function signature.",
                                            Raise(r.err)))
            /\ UNCHANGED fc_bound

\* lines 379-380: args, kwargs = schema_to_type(function, arguments, scope=scope)
FcReconstruct ==
    /\ fc_pc = "reconstruct"
    /\ fc_trace' = Append(fc_trace, "reconstruct")
    /\ FcReconstructed(schema_to_type("functions", fc_function, fc_arguments, {}, TRUE))
    /\ UNCHANGED <<fc_function, fc_result, fc_calls>>
    /\ FcKeeps /\ UNCHANGED <<rc_vars, sch_vars, memo_vars, desc_vars, col_vars>>

\* FcInvoked with a first failed call made again instead of reported
FcInvoked_retry(r) ==
    /\ fc_ran' = IF r.err = "ValidationError" THEN fc_ran ELSE fc_ran + 1
    /\ IF r.err = "none"
       THEN /\ fc_result' = r.val
            /\ fc_pc' = "serialize"
            /\ UNCHANGED fc_error
       ELSE IF fc_calls = 0
       THEN /\ fc_pc' = "invoke"
            /\ UNCHANGED <<fc_error, fc_result>>
       ELSE /\ FcRaises(function_call_error("Function call failed.", r))
            /\ UNCHANGED fc_result

\* FcInvoke once the call gave r; the body ran unless the wrapper's validation
\* stopped the call before it
FcInvoked(r) ==
    /\ fc_ran' = IF r.err = "ValidationError" THEN fc_ran ELSE fc_ran + 1
    /\ IF r.err = "none"
       THEN /\ fc_result' = r.val
            /\ fc_pc' = "serialize"
            /\ UNCHANGED fc_error
       ELSE /\ FcRaises(function_call_error("Function call failed.", r))
            /\ UNCHANGED fc_result

\* lines 382-383: result = function(*args, **kwargs)
FcInvoke ==
    /\ fc_pc = "invoke"
    /\ fc_trace' = Append(fc_trace, "invoke")
    /\ fc_calls' = fc_calls + 1
    /\ FcInvoked(CallFunction(fc_function, fc_bound, fc_exc))
    /\ UNCHANGED <<fc_caller, fc_function, fc_arguments, fc_bound>>
    /\ FcKeeps /\ UNCHANGED <<rc_vars, sch_vars, memo_vars, desc_vars, col_vars>>

\* FcSerialize with every result wrapped as {"result": ...}, the serializable
\* ones too
FcSerialize_wrapAlways ==
    /\ fc_pc = "serialize"
    /\ IF ~fc_return_json
       THEN UNCHANGED <<fc_result, fc_trace>>
       ELSE /\ fc_trace' = Append(fc_trace, "serialize")
            /\ fc_result' = json_dumps(VDict([n \in {"result"} |->
                                                 IF Serializable(fc_result) THEN fc_result
                                                 ELSE VStr(PyStr(fc_result))])).val
    /\ fc_pc' = "returned"
    /\ UNCHANGED <<fc_caller, fc_function, fc_arguments, fc_bound, fc_error, fc_calls, fc_ran>>
    /\ FcKeeps /\ UNCHANGED <<rc_vars, sch_vars, memo_vars, desc_vars, col_vars>>

\* lines 385-392: json.dumps(result), or on any exception
\* json.dumps({"result": str(result)}); then return result
FcSerialize ==
    /\ fc_pc = "serialize"
    /\ IF ~fc_return_json
       THEN UNCHANGED <<fc_result, fc_trace>>
       ELSE /\ fc_trace' = Append(fc_trace, "serialize")
            /\ fc_result' = FirstOk(json_dumps(fc_result),
                                    json_dumps(VDict([n \in {"result"} |->
                                                        VStr(PyStr(fc_result))]))).val
    /\ fc_pc' = "returned"
    /\ UNCHANGED <<fc_caller, fc_function, fc_arguments, fc_bound, fc_error, fc_calls, fc_ran>>
    /\ FcKeeps /\ UNCHANGED <<rc_vars, sch_vars, memo_vars, desc_vars, col_vars>>

FcNext == FcResolve \/ FcWrap \/ FcParse \/ FcReconstruct \/ FcInvoke \/ FcSerialize

SpecCall == FcInit /\ [][FcNext]_vars

----------------------------------------------------------------------------
(* Schema building (schema.py): parse_function_params on a declared        *)
(* function, whose signature and docstring are the input.                   *)

\* a function given by its signature and the parameters its docstring documents
Declared(params, doc) == [k |-> "declared", name |-> "f", params |-> params, doc |-> doc]

\* one parameter entry of a parsed docstring; type_name "" is a missing type
DocParam(arg, tn, opt, d, desc) ==
    [arg_name |-> arg, type_name |-> tn, is_optional |-> opt, default |-> d, description |-> desc]

\* what an annotation taken from a docstring can be besides a type: None when
\* the entry has no type, the name itself when it does not evaluate
TNoneLit == [k |-> "None"]
TName(n) == [k |-> "name", name |-> n]

\* the Parameter dataclass
Parameter(n, desc, d, a) == [name |-> n, description |-> desc, default |-> d, annotation |-> a]

\* eval(param.type_name) inside schema.py, any exception giving type_name
\* back: None where the entry has no type, the name where it does not evaluate
EvalTypeName(tn) ==
    CASE tn = "int" -> TInt
      [] tn = "float" -> TFloat
      [] tn = "str" -> TStr
      [] tn = "bool" -> TBool
      [] tn = "" -> TNoneLit
      [] OTHER -> TName(tn)

docstring_to_params(doc) ==
    [i \in 1 .. Len(doc) |->
       Parameter(doc[i].arg_name, doc[i].description,
                 IF doc[i].is_optional THEN doc[i].default ELSE Empty,
                 EvalTypeName(doc[i].type_name))]

\* docstring_params.get(name, Parameter(name))
DocParamFor(name, docparams) ==
    IF \E i \in 1 .. Len(docparams) : docparams[i].name = name
    THEN docparams[CHOOSE i \in 1 .. Len(docparams) : docparams[i].name = name]
    ELSE Parameter(name, "", Empty, Empty)

\* the signature and docstring of what parse_function_params is given
ParamsOf(function) ==
    IF function.k = "declared" THEN function.params ELSE Signature(function.name)
DocOf(function) == IF function.k = "declared" THEN function.doc ELSE <<>>

\* isinstance(default, annotation).  A union tests its members in order and
\* a member that is no class raises when it is reached; anything else that
\* is no class raises at once.
RECURSIVE InstanceOfUnion(_, _, _)
InstanceOfUnion(v, args, i) ==
    IF i > Len(args) THEN Ok(VBool(FALSE))
    ELSE IF ~IsType(args[i]) THEN Raise("TypeError")
    ELSE IF IsInstance(v, args[i]) THEN Ok(VBool(TRUE))
    ELSE InstanceOfUnion(v, args, i + 1)

isinstance(v, t) ==
    IF IsType(t) THEN Ok(VBool(IsInstance(v, t)))
    ELSE IF t.k = "Union" THEN InstanceOfUnion(v, t.args, 1)
    ELSE Raise("TypeError")

\* the schema {} that accepts anything
EmptySchema == [any |-> TRUE]

\* the JSON schema pydantic writes for a type it has a schema for
RECURSIVE JsonSchemaOf(_)
JsonSchemaOf(t) ==
    CASE t.k = "int" -> [type |-> "integer"]
      [] t.k = "float" -> [type |-> "number"]
      [] t.k = "str" -> [type |-> "string"]
      [] t.k = "bool" -> [type |-> "boolean"]
      [] t.k \in {"NoneType", "None"} -> [type |-> "null"]
      [] t.k = "List" -> [type |-> "array", items |-> JsonSchemaOf(t.args[1])]
      [] t.k = "Tuple" ->
           [type |-> "array", prefixItems |-> [i \in 1 .. Len(t.args) |-> JsonSchemaOf(t.args[i])]]
      [] t.k = "Union" -> [anyOf |-> [i \in 1 .. Len(t.args) |-> JsonSchemaOf(t.args[i])]]
      [] OTHER -> EmptySchema

\* the property fragment of one parameter
NoDefault == [k |-> "absent"]
Fragment(schema, desc, d) == [schema |-> schema, description |-> desc, default |-> d]

\* the outcome of parse_function_params: the parameter it raised at, if any,
\* the `required` list (empty where the key is not set), the properties in
\* order and the number of warnings logged
ParamsResult(e, at, req, props, warns) ==
    [err |-> e, at |-> at, required |-> req, properties |-> props, warns |-> warns]

\* the outcome for one parameter
StepResult(e, req, frag, warns) == [err |-> e, req |-> req, frag |-> frag, warns |-> warns]

\* lines 86-90: a parameter is required when the signature gives it no default;
\* here with the default of the docstring entry consulted instead
IsRequired_fromDocstring(sig_param, doc_param) == doc_param.default = Empty

\* lines 86-90: a parameter is required when the signature gives it no default
IsRequired(sig_param, doc_param) == sig_param.default = Empty

\* lines 92-105: the description, then the default where the signature has one
\* and a type is declared; `matches` is isinstance(default, annotation)
WithDefault(sig_param, doc_param, annotation, descriptions, schema, matches) ==
    IF sig_param.default = Empty \/ annotation = Empty
    THEN StepResult("none", IsRequired(sig_param, doc_param),
                    Fragment(schema, IF descriptions THEN doc_param.description ELSE "", NoDefault), 0)
    ELSE IF matches.err # "none"
    THEN StepResult(matches.err, FALSE, Fragment(schema, "", NoDefault), 0)
    ELSE IF matches.val.b
    THEN StepResult("none", IsRequired(sig_param, doc_param),
                    Fragment(schema, IF descriptions THEN doc_param.description ELSE "",
                             sig_param.default), 0)
    ELSE StepResult("none", IsRequired(sig_param, doc_param),
                    Fragment(schema, IF descriptions THEN doc_param.description ELSE "", NoDefault), 1)

\* lines 76-105, the loop body, once type_to_schema(annotation) gave ts
ParamStep(sig_param, doc_param, annotation, descriptions, ts) ==
    IF ts.err # "none" THEN StepResult(ts.err, FALSE, Fragment(EmptySchema, "", NoDefault), 0)
    ELSE WithDefault(sig_param, doc_param, annotation, descriptions, ts.val,
                     isinstance(sig_param.default, annotation))

\* lines 79-83: the signature's annotation, or else the docstring's
AnnotationOf(sig_param, doc_param) ==
    IF sig_param.annotation # Empty THEN sig_param.annotation ELSE doc_param.annotation

\* the outcome of one loop iteration joined with that of the iterations after it
JoinParams(i, name, step, rest) ==
    IF step.err # "none" THEN ParamsResult(step.err, i, <<>>, <<>>, 0)
    ELSE IF rest.err # "none" THEN rest
    ELSE ParamsResult("none", 0,
                      (IF step.req THEN <<name>> ELSE <<>>) \o rest.required,
                      <<[name |-> name, frag |-> step.frag]>> \o rest.properties,
                      step.warns + rest.warns)

\* parse_function_params as a schema: an object with properties and required
ObjectSchema(r) ==
    IF r.err # "none" THEN Raise(r.err)
    ELSE Ok([type |-> "object", properties |-> r.properties, required |-> r.required])

RECURSIVE type_to_schema(_), parse_function_params(_, _), ParseFrom(_, _, _, _)

type_to_schema(py_type) ==
    IF py_type = Empty THEN Ok(EmptySchema)
    ELSE IF py_type.k = "class"
    \* a dataclass directly, any other class after TypeAdapter raised
    THEN ObjectSchema(parse_function_params(py_type, TRUE))
    \* a type given by name is resolved by pydantic where the name is one
    ELSE IF py_type.k = "name" /\ EvalTypeName(py_type.name).k # "name"
    THEN Ok(JsonSchemaOf(EvalTypeName(py_type.name)))
    ELSE IF py_type.k = "name" \/ ~PydGenerable(py_type, {}, {})
    THEN Raise("PydanticUndefinedAnnotation")
    ELSE Ok(JsonSchemaOf(py_type))

\* the loop over signature.parameters from parameter i on
ParseFrom(params, docparams, i, descriptions) ==
    IF i > Len(params) THEN ParamsResult("none", 0, <<>>, <<>>, 0)
    ELSE JoinParams(i, params[i].name,
                    ParamStep(params[i], DocParamFor(params[i].name, docparams),
                              AnnotationOf(params[i], DocParamFor(params[i].name, docparams)),
                              descriptions,
                              type_to_schema(AnnotationOf(params[i],
                                                          DocParamFor(params[i].name, docparams)))),
                    ParseFrom(params, docparams, i + 1, descriptions))

parse_function_params(function, descriptions) ==
    ParseFrom(ParamsOf(function), docstring_to_params(DocOf(function)), 1, descriptions)

\* a function given by its return annotation and the Returns section of its
\* docstring; "" is a missing type name or description
DocReturns(tn, desc) == [type_name |-> tn, description |-> desc]
Returning(ret, docret) == [k |-> "returning", name |-> "func", returns |-> ret, docreturns |-> docret]

\* lines 115-122: the annotation, or else the type name of the docstring
ReturnType(function) ==
    IF function.returns # Empty THEN function.returns
    ELSE IF function.docreturns.type_name # "" THEN TName(function.docreturns.type_name)
    ELSE Empty

\* the response of parse_function_responses; `present` is FALSE where it
\* returns None, NoContent stands for a response without "content", a
\* description of "" for one without "description"
NoContent == [k |-> "absent"]
Response(present, content, desc, errors) ==
    [err |-> "none", present |-> present, content |-> content, description |-> desc,
     errors |-> errors]

\* RespondWith with the description written whether or not descriptions are
\* asked for
RespondWith_ignoringFlag(return_schema, description, descriptions, errors) ==
    Response(return_schema \notin {NoContent, EmptySchema} \/ description # "",
             IF return_schema \notin {NoContent, EmptySchema} THEN return_schema ELSE NoContent,
             IF descriptions /\ description # "" THEN description ELSE "OK",
             errors)

\* lines 130-143, once return_schema is known: an empty schema is falsy
RespondWith(return_schema, description, descriptions, errors) ==
    Response(return_schema \notin {NoContent, EmptySchema} \/ (description # "" /\ descriptions),
             IF return_schema \notin {NoContent, EmptySchema} THEN return_schema ELSE NoContent,
             IF return_schema \notin {NoContent, EmptySchema}
             THEN (IF descriptions /\ description # "" THEN description ELSE "OK")
             ELSE IF description # "" /\ descriptions THEN description
             ELSE "",
             errors)

\* lines 124-128: a failure of type_to_schema is logged, return_schema = None
ReturnSchema(ts, description, descriptions) ==
    IF ts.err # "none" THEN RespondWith(NoContent, description, descriptions, 1)
    ELSE RespondWith(ts.val, description, descriptions, 0)

parse_function_responses(function, descriptions) ==
    ReturnSchema(type_to_schema(ReturnType(function)), function.docreturns.description,
                 descriptions)

\* the return annotations and Returns sections parse_function_responses is run on
SchReturns == {Empty, TInt, TList(TInt), TOptional(TInt), TFwd("UnknownType")}
SchDocReturns ==
    {DocReturns(tn, desc) : tn \in {"", "int", "UnknownType"}, desc \in {"", "An unknown type."}}

\* the signatures and docstrings parse_function_params is run on
SchAnnotations ==
    {Empty, TInt, TFloat, TStr, TBool, TList(TInt), TOptional(TInt), TOptional(TList(TInt)),
     TUnion(<<TInt, TList(TInt)>>), TClass("ClassTest"), TClass("Node")}
SchDefaults == {Empty, VNull, VInt(0), VFloat(0), VStr("a"), VBool(FALSE), VList(<<>>)}
SchFirst == {Param("arg1", a, d) : a \in SchAnnotations, d \in SchDefaults}
SchSecond == {Param("arg2", a, d) : a \in {Empty, TInt, TList(TInt)}, d \in {Empty, VInt(0)}}

\* a parameter without a default cannot follow one that has a default
SchSignatures ==
    {<<>>} \cup {<<p>> : p \in SchFirst}
      \cup {s \in {<<p, q>> : p \in SchFirst, q \in SchSecond} :
              s[1].default # Empty => s[2].default # Empty}

\* no entry for arg1, or one with or without a type, marked optional or not;
\* an optional entry may state a default, which is kept as text
SchDocs ==
    {<<>>} \cup {<<DocParam("arg1", tn, FALSE, VNull, "First argument")>> : tn \in {"", "int", "Thing"}}
           \cup {<<DocParam("arg1", tn, TRUE, d, "First argument")>> :
                   tn \in {"", "int", "Thing"}, d \in {VNull, VStr("0")}}

\* one call parse_function_params(function, descriptions) or
\* parse_function_responses(function, descriptions) about to be made
SchRequest ==
    /\ sch_function \in {Declared(s, d) : s \in SchSignatures, d \in SchDocs}
                        \cup {Returning(r, d) : r \in SchReturns, d \in SchDocReturns}
    /\ sch_descriptions \in BOOLEAN
    /\ sch_pc = "ready"
    /\ sch_out = Pending

SchInit == SchRequest /\ RcIdle /\ FcIdle /\ WrapIdle

SchBuild ==
    /\ sch_pc = "ready" /\ sch_function.k = "declared"
    /\ sch_out' = parse_function_params(sch_function, sch_descriptions)
    /\ sch_pc' = "done"
    /\ UNCHANGED <<sch_function, sch_descriptions>>
    /\ UNCHANGED <<rc_vars, fc_vars, memo_vars, desc_vars, col_vars>>

SchResponses ==
    /\ sch_pc = "ready" /\ sch_function.k = "returning"
    /\ sch_out' = parse_function_responses(sch_function, sch_descriptions)
    /\ sch_pc' = "done"
    /\ UNCHANGED <<sch_function, sch_descriptions>>
    /\ UNCHANGED <<rc_vars, fc_vars, memo_vars, desc_vars, col_vars>>

SchNext == SchBuild \/ SchResponses

SpecSchema == SchInit /\ [][SchNext]_vars

----------------------------------------------------------------------------
(* The JsonSchema wrapper (schema.py): the schema document of a decorated   *)
(* function, built by _make_schema on the first request for __schema__ and  *)
(* kept in _cached_schema; __get__ binds a decorated method to an instance. *)

\* threads that request the schema of one wrapper at the same time
MaxThreads == 2
\* schema requests one thread makes
MaxRequests == 2
\* instances of the class that has the decorated method
MaxInstances == 2
\* JsonSchema objects alive at once
MaxWrappers == 3

\* a decorated function: its signature, the parts of its docstring and its
\* return annotation
Decorated(name, params, doc, ret, docret, short, long) ==
    [k |-> "declared", name |-> name, params |-> params, doc |-> doc, returns |-> ret,
     docreturns |-> docret, short_description |-> short, long_description |-> long]

\* JsonSchema.__init__: the fields of a wrapper besides _cached_schema
JsonSchema(function, descriptions, full_docstring, responses_schema) ==
    [function |-> function, descriptions |-> descriptions, full_docstring |-> full_docstring,
     responses_schema |-> responses_schema]

\* the schema document as a dict; NoKey and "" stand for a key that is not set
NoKey == [k |-> "nokey"]
SchemaDoc(name, parameters, responses, description) ==
    [name |-> name, parameters |-> parameters, responses |-> responses,
     description |-> description]
EmptyDoc == SchemaDoc("", NoKey, NoKey, "")

\* line 202
SetName(schema, w) == [schema EXCEPT !.name = w.function.name]

\* line 203: parse_function_params(self._function, self._descriptions)
ParametersOf(w) == ObjectSchema(parse_function_params(w.function, w.descriptions))
SetParameters(schema, parameters) == [schema EXCEPT !.parameters = parameters.val]

\* lines 204-211: the responses, where asked for and where there are any
ResponsesOf(w) == parse_function_responses(w.function, w.descriptions)
SetResponses(schema, w, responses) ==
    IF w.responses_schema /\ responses.present
    THEN [schema EXCEPT !.responses =
            [content |-> responses.content, description |-> responses.description]]
    ELSE schema

\* lines 213-221: the short description, with the long one where asked for
DescriptionOf(w) ==
    w.function.short_description
      \o (IF w.full_docstring /\ w.function.long_description # ""
          THEN "\n" \o w.function.long_description ELSE "")
SetDescription(schema, w) ==
    IF w.descriptions THEN [schema EXCEPT !.description = DescriptionOf(w)] ELSE schema

\* _make_schema as one call
make_schema(w) ==
    IF ParametersOf(w).err # "none" THEN Raise(ParametersOf(w).err)
    ELSE Ok(SetDescription(SetResponses(SetParameters(SetName(EmptyDoc, w), ParametersOf(w)),
                                        w, ResponsesOf(w)), w))

\* the decorated functions: without parameters, with two, with a default
\* whose check against the annotation raises
WrapParams ==
    {<<>>,
     <<Param("arg1", TInt, Empty), Param("arg2", TStr, VStr("a"))>>,
     <<Param("arg1", TList(TInt), VList(<<>>))>>}
\* without a docstring and return annotation, or with both
WrapDocs ==
    {[short |-> "", long |-> "", returns |-> Empty, docreturns |-> DocReturns("", "")],
     [short |-> "method description", long |-> "details", returns |-> TInt,
      docreturns |-> DocReturns("UnknownType", "An unknown type.")]}
WrapFunctions ==
    {Decorated("method", p, <<DocParam("arg1", "int", FALSE, VNull, "First argument")>>,
               d.returns, d.docreturns, d.short, d.long) :
       p \in WrapParams, d \in WrapDocs}
Wrappers ==
    {JsonSchema(f, d, fd, rs) : f \in WrapFunctions, d \in BOOLEAN, fd \in BOOLEAN, rs \in BOOLEAN}

Threads == 1 .. MaxThreads

\* a wrapper just made, and threads about to read its __schema__
MemoRequest ==
    /\ memo_wrapper \in Wrappers
    /\ memo_cache = VNull
    /\ memo_pc = [t \in Threads |-> "idle"]
    /\ memo_local = [t \in Threads |-> EmptyDoc]
    /\ memo_ret = [t \in Threads |-> Pending]
    /\ memo_reqs = [t \in Threads |-> 0]

MemoInit == MemoRequest /\ DescIdle /\ ColIdle /\ RcIdle /\ FcIdle /\ SchIdle

MemoKeeps == UNCHANGED <<memo_wrapper, desc_vars, col_vars, rc_vars, fc_vars, sch_vars>>

\* line 196: `if self._cached_schema is None`
MemoCheck(t) ==
    /\ memo_pc[t] \in {"idle", "returned", "raised"}
    /\ memo_reqs[t] < MaxRequests
    /\ memo_reqs' = [memo_reqs EXCEPT ![t] = @ + 1]
    /\ memo_pc' = [memo_pc EXCEPT ![t] = IF memo_cache = VNull THEN "name" ELSE "return"]
    /\ memo_local' = [memo_local EXCEPT ![t] = EmptyDoc]
    /\ UNCHANGED <<memo_cache, memo_ret>>
    /\ MemoKeeps

\* MemoName with the dict stored in the cache as soon as it is made
MemoName_publish(t) ==
    /\ memo_pc[t] = "name"
    /\ memo_local' = [memo_local EXCEPT ![t] = SetName(@, memo_wrapper)]
    /\ memo_cache' = memo_local'[t]
    /\ memo_pc' = [memo_pc EXCEPT ![t] = "parameters"]
    /\ UNCHANGED <<memo_ret, memo_reqs>>
    /\ MemoKeeps

\* lines 201-202
MemoName(t) ==
    /\ memo_pc[t] = "name"
    /\ memo_local' = [memo_local EXCEPT ![t] = SetName(@, memo_wrapper)]
    /\ memo_pc' = [memo_pc EXCEPT ![t] = "parameters"]
    /\ UNCHANGED <<memo_cache, memo_ret, memo_reqs>>
    /\ MemoKeeps

\* line 203: an exception of parse_function_params leaves the request
MemoParameters(t) ==
    /\ memo_pc[t] = "parameters"
    /\ IF ParametersOf(memo_wrapper).err # "none"
       THEN /\ memo_pc' = [memo_pc EXCEPT ![t] = "raised"]
            /\ memo_ret' = [memo_ret EXCEPT ![t] = Raise(ParametersOf(memo_wrapper).err)]
            /\ UNCHANGED memo_local
       ELSE /\ memo_pc' = [memo_pc EXCEPT ![t] = "responses"]
            /\ memo_local' = [memo_local EXCEPT ![t] = SetParameters(@, ParametersOf(memo_wrapper))]
            /\ UNCHANGED memo_ret
    /\ UNCHANGED <<memo_cache, memo_reqs>>
    /\ MemoKeeps

\* lines 204-211
MemoResponses(t) ==
    /\ memo_pc[t] = "responses"
    /\ memo_local' = [memo_local EXCEPT ![t] = SetResponses(@, memo_wrapper, ResponsesOf(memo_wrapper))]
    /\ memo_pc' = [memo_pc EXCEPT ![t] = "description"]
    /\ UNCHANGED <<memo_cache, memo_ret, memo_reqs>>
    /\ MemoKeeps

\* lines 213-223
MemoDescription(t) ==
    /\ memo_pc[t] = "description"
    /\ memo_local' = [memo_local EXCEPT ![t] = SetDescription(@, memo_wrapper)]
    /\ memo_pc' = [memo_pc EXCEPT ![t] = "store"]
    /\ UNCHANGED <<memo_cache, memo_ret, memo_reqs>>
    /\ MemoKeeps

\* line 197: self._cached_schema = the dict _make_schema returned
MemoStore(t) ==
    /\ memo_pc[t] = "store"
    /\ memo_cache' = memo_local[t]
    /\ memo_pc' = [memo_pc EXCEPT ![t] = "return"]
    /\ UNCHANGED <<memo_local, memo_ret, memo_reqs>>
    /\ MemoKeeps

\* line 198: return self._cached_schema
MemoReturn(t) ==
    /\ memo_pc[t] = "return"
    /\ memo_ret' = [memo_ret EXCEPT ![t] = Ok(memo_cache)]
    /\ memo_pc' = [memo_pc EXCEPT ![t] = "returned"]
    /\ UNCHANGED <<memo_cache, memo_local, memo_reqs>>
    /\ MemoKeeps

MemoNext ==
    \E t \in Threads :
       \/ MemoCheck(t) \/ MemoName(t) \/ MemoParameters(t) \/ MemoResponses(t)
       \/ MemoDescription(t) \/ MemoStore(t) \/ MemoReturn(t)

SpecMemo == MemoInit /\ [][MemoNext]_vars

(* A class with one decorated method, its instances, and the accesses and  *)
(* schema requests a program makes one after the other.                     *)

Instances == 1 .. MaxInstances

\* a JsonSchema object: its fields, _cached_schema, the instance it was bound
\* to (0 for none) and the schemas it has built
WrapperObject(w, owner) == [w |-> w, cached |-> VNull, owner |-> owner, builds |-> 0]

\* self._function.__get__(obj, objtype): the function itself through the
\* class, a bound method, whose signature lacks the receiver, through an instance
BoundMethod(function, obj) ==
    IF obj = 0 THEN function ELSE [function EXCEPT !.params = Tail(@)]

\* lines 173-180: the bound method rewrapped with the flags of the wrapper
Rewrap(w, obj) ==
    WrapperObject(JsonSchema(BoundMethod(w.function, obj), w.descriptions, w.full_docstring,
                             w.responses_schema), obj)

\* __get__ without line 185, nothing being kept on the instance
StoreOnInstance_skip(dict, obj, wrapper) == dict

\* line 185: obj.__dict__[self._name] = bound_schema
StoreOnInstance(dict, obj, wrapper) == [dict EXCEPT ![obj] = wrapper]

\* __schema__ with the description left out of what a filled cache gives
Requested_withoutDescription(cached, built) ==
    IF cached = VNull THEN built ELSE Ok([cached EXCEPT !.description = ""])

\* lines 196-198: what __schema__ gives, `built` being what _make_schema does
Requested(cached, built) == IF cached = VNull THEN built ELSE Ok(cached)

\* the decorated methods: the functions above with a receiver
MethodFlags == {<<TRUE, TRUE, TRUE>>, <<FALSE, FALSE, TRUE>>}
Methods ==
    {JsonSchema([f EXCEPT !.params = <<Param("self", Empty, Empty)>> \o @], fl[1], fl[2], fl[3]) :
       f \in WrapFunctions, fl \in MethodFlags}

\* the class body has run: the decorated method is a class attribute
DescRequest ==
    /\ \E w \in Methods : desc_heap = <<WrapperObject(w, 0)>>
    /\ desc_dict = [i \in Instances |-> 0]
    /\ desc_stored = [i \in Instances |-> 0]
    /\ desc_first = <<Pending>>
    /\ desc_op = "none" /\ desc_at = 0 /\ desc_out = Pending

DescInit == DescRequest /\ MemoIdle /\ ColIdle /\ RcIdle /\ FcIdle /\ SchIdle

DescKeeps == UNCHANGED <<memo_vars, col_vars, rc_vars, fc_vars, sch_vars>>

\* instance.method: the entry of the instance's __dict__ where there is one
\* (JsonSchema has no __set__), else __get__(instance, cls)
DescAccessInstance(i) ==
    /\ IF desc_dict[i] # 0
       THEN /\ desc_at' = desc_dict[i]
            /\ UNCHANGED <<desc_heap, desc_dict, desc_first>>
       ELSE /\ Len(desc_heap) < MaxWrappers
            /\ desc_heap' = Append(desc_heap, Rewrap(desc_heap[1].w, i))
            /\ desc_first' = Append(desc_first, Pending)
            /\ desc_dict' = StoreOnInstance(desc_dict, i, Len(desc_heap) + 1)
            /\ desc_at' = Len(desc_heap) + 1
    /\ desc_stored' = [desc_stored EXCEPT ![i] = IF @ = 0 THEN desc_at' ELSE @]
    /\ desc_op' = "instance"
    /\ UNCHANGED desc_out
    /\ DescKeeps

\* cls.method: __get__(None, cls), lines 181-182
DescAccessClass ==
    /\ Len(desc_heap) < MaxWrappers
    /\ desc_heap' = Append(desc_heap, Rewrap(desc_heap[1].w, 0))
    /\ desc_first' = Append(desc_first, Pending)
    /\ desc_at' = Len(desc_heap) + 1
    /\ desc_op' = "class"
    /\ UNCHANGED <<desc_dict, desc_stored, desc_out>>
    /\ DescKeeps

\* wrapper.__schema__
DescSchema(x) ==
    /\ desc_out' = Requested(desc_heap[x].cached, make_schema(desc_heap[x].w))
    /\ desc_heap' = IF desc_heap[x].cached = VNull /\ desc_out'.err = "none"
                    THEN [desc_heap EXCEPT ![x].cached = desc_out'.val, ![x].builds = @ + 1]
                    ELSE desc_heap
    /\ desc_first' = [desc_first EXCEPT ![x] = IF @ = Pending THEN desc_out' ELSE @]
    /\ desc_at' = x
    /\ desc_op' = "schema"
    /\ UNCHANGED <<desc_dict, desc_stored>>
    /\ DescKeeps

\* the builder called again on the wrapper's function, past the cache
DescBuild(x) ==
    /\ desc_out' = make_schema(desc_heap[x].w)
    /\ desc_first' = [desc_first EXCEPT ![x] = IF @ = Pending THEN desc_out' ELSE @]
    /\ desc_at' = x
    /\ desc_op' = "build"
    /\ UNCHANGED <<desc_heap, desc_dict, desc_stored>>
    /\ DescKeeps

DescNext ==
    \/ \E i \in Instances : DescAccessInstance(i)
    \/ DescAccessClass
    \/ \E x \in 1 .. Len(desc_heap) : DescSchema(x) \/ DescBuild(x)

SpecDescriptor == DescInit /\ [][DescNext]_vars

----------------------------------------------------------------------------
(* collect_functions: the loop over the items of a scope, and the wrapping *)
(* of what was collected.                                                  *)

MaxScope == 3

\* the objects a scope holds: what inspect and dataclasses tell of them, and
\* their __module__ ("none" where the object has no such attribute)
PyObject(kind, dataclass, module) == [kind |-> kind, dataclass |-> dataclass, module |-> module]

\* scope.get("__name__", last_globals["__name__"])
scope_name == "tests.test_collection"

\* the names of the module of src/tests/test_collection.py and of its tests,
\* in the order of the scope, and the objects they are bound to; foo is an
\* instance of the dataclass Foo, x an integer and len the builtin
ScopeNames == <<"fn", "json_schema", "len", "int", "Foo", "Bar", "foo", "x">>
ScopeValue(name) ==
    CASE name = "fn" -> PyObject("function", FALSE, scope_name)
      [] name = "json_schema" -> PyObject("function", FALSE, "autocoder.functions")
      [] name = "len" -> PyObject("builtin", FALSE, "builtins")
      [] name = "int" -> PyObject("class", FALSE, "builtins")
      [] name = "Foo" -> PyObject("class", TRUE, scope_name)
      [] name = "Bar" -> PyObject("class", FALSE, scope_name)
      [] name = "foo" -> PyObject("object", TRUE, scope_name)
      [] name = "x" -> PyObject("object", FALSE, "none")

\* getattr(py_type, "__module__", None) in ("builtins", "__builtin__")
HasBuiltinModule(fn) == fn.module = "builtins"
\* inspect.isfunction, inspect.isclass
IsFunction(fn) == fn.kind = "function"
IsClass(fn) == fn.kind = "class"
\* dataclasses.is_dataclass: true of a dataclass and of an instance of one
IsDataclass(fn) == fn.dataclass
\* callable(function) or hasattr(function, "__get__")
Callable(fn) == fn.kind # "object"

\* the globals of the calling module, taken for a scope that is None or empty
OuterScope == {"fn", "Foo", "foo"}
ScopeOrOuter(scope) == IF scope = {} THEN OuterScope ELSE scope

\* scope.items(), names only
RECURSIVE ItemsFrom(_, _)
ItemsFrom(scope, i) ==
    IF i > Len(ScopeNames) THEN <<>>
    ELSE (IF ScopeNames[i] \in scope THEN <<ScopeNames[i]>> ELSE <<>>) \o ItemsFrom(scope, i + 1)

\* one turn of the loop: whether functions[name] = fn is done
Collects(name, fn, a) ==
    IF a.blacklist # {} /\ name \in a.blacklist THEN FALSE
    ELSE IF a.whitelist # {} /\ name \in a.whitelist THEN TRUE
    ELSE IF HasBuiltinModule(fn) THEN FALSE
    ELSE IF ~a.collect_imports /\ fn.module # scope_name THEN FALSE
    ELSE \/ a.include_functions /\ IsFunction(fn)
         \/ a.include_classes /\ IsClass(fn)
         \/ a.include_dataclasses /\ IsDataclass(fn)

\* json_schema(f): the assertion that f is callable, then the wrapper
json_schema(fn) == IF Callable(fn) THEN "JsonSchema" ELSE "AssertionError"

\* the calls of collect_functions
Whitelists == {{}, {"fn"}, {"len", "x"}}
Blacklists == {{}, {"fn"}, {"x"}}
ColRequests ==
    [scope : {s \in SUBSET {ScopeNames[i] : i \in 1 .. Len(ScopeNames)} : Cardinality(s) <= MaxScope},
     include_functions : BOOLEAN, include_classes : BOOLEAN, include_dataclasses : BOOLEAN,
     collect_imports : BOOLEAN, whitelist : Whitelists, blacklist : Blacklists,
     add_schema : BOOLEAN]

\* a call is made: functions = {} and the loop is to start
ColRequest ==
    /\ col_args \in ColRequests
    /\ col_items = ItemsFrom(ScopeOrOuter(col_args.scope), 1)
    /\ col_functions = {} /\ col_pc = "loop" /\ col_out = Pending

ColInit == ColRequest /\ MemoIdle /\ DescIdle /\ RcIdle /\ FcIdle /\ SchIdle

ColKeeps == UNCHANGED <<col_args, memo_vars, desc_vars, rc_vars, fc_vars, sch_vars>>

\* lines 430-448: the next item of the scope
ColItem ==
    /\ col_pc = "loop" /\ col_items # <<>>
    /\ col_functions' =
         IF Collects(Head(col_items), ScopeValue(Head(col_items)), col_args)
         THEN col_functions \cup {Head(col_items)} ELSE col_functions
    /\ col_items' = Tail(col_items)
    /\ UNCHANGED <<col_pc, col_out>>
    /\ ColKeeps

\* lines 450-451: every collected value is wrapped, or the first that
\* json_schema refuses ends the call
ColAddSchema ==
    /\ col_pc = "loop" /\ col_items = <<>> /\ col_args.add_schema
    /\ IF \A n \in col_functions : json_schema(ScopeValue(n)) = "JsonSchema"
       THEN /\ col_pc' = "done"
            /\ col_out' = [err |-> "none", names |-> col_functions, schema |-> TRUE]
       ELSE /\ col_pc' = "done"
            /\ col_out' = [err |-> "AssertionError"]
    /\ UNCHANGED <<col_items, col_functions>>
    /\ ColKeeps

\* line 453 without add_schema
ColReturn ==
    /\ col_pc = "loop" /\ col_items = <<>> /\ ~col_args.add_schema
    /\ col_pc' = "done"
    /\ col_out' = [err |-> "none", names |-> col_functions, schema |-> FALSE]
    /\ UNCHANGED <<col_items, col_functions>>
    /\ ColKeeps

ColNext == ColItem \/ ColAddSchema \/ ColReturn

SpecCollect == ColInit /\ [][ColNext]_vars

----------------------------------------------------------------------------

(* Properties of reconstruction *)

RcDone(op) == rc_pc = "done" /\ rc_op = op

\* the chain of Node instances a raw chain stands for
RECURSIVE ExpectedChain(_)
ExpectedChain(raw) ==
    VInst("Node", [n \in {"a", "b"} |->
                     IF n = "a" THEN raw.o.a
                     ELSE IF "b" \in DOMAIN raw.o THEN ExpectedChain(raw.o.b) ELSE VNull])

(* C7: reconstructing a raw chain of depth n against the self-referential  *)
(* composite Node yields the chain of n Node instances, level i holding    *)
(* the integer given at level i and the innermost having no link; both     *)
(* for instantiate_type on Node and for schema_to_type on walk(a: Node).   *)
C7_NodeChain ==
    /\ RcDone("instantiate_type") /\ rc_type = TClass("Node") /\ rc_value \in RawNodes
         => rc_out = Ok(ExpectedChain(rc_value))
    /\ RcDone("schema_to_type") /\ rc_type = TFunction("walk")
         /\ DOMAIN rc_value.o = {"a"} /\ rc_value.o.a \in RawNodes
         => rc_out.err = "none" /\ rc_out.val.o.a = ExpectedChain(rc_value.o.a)

FixedTuple(t) ==
    /\ t.k = "Tuple"
    /\ Len(t.args) > 1
    /\ \A i \in 1 .. Len(t.args) : t.args[i] # TEllipsis

(* C8: against a fixed-length tuple type, a raw sequence whose length      *)
(* differs from the number of element types fails, shorter or longer; a    *)
(* success has equal length and pairs the elements positionally.           *)
C8_TupleLength ==
    RcDone("instantiate_type") /\ FixedTuple(rc_type) /\ rc_value.k = "list"
      => /\ Len(rc_value.l) # Len(rc_type.args) => rc_out.err # "none"
         /\ rc_out.err = "none" =>
              /\ Len(rc_out.val.l) = Len(rc_type.args)
              /\ \A i \in 1 .. Len(rc_type.args) :
                   Ok(rc_out.val.l[i]) = instantiate_type(rc_m, rc_type.args[i], rc_value.l[i], {})

\* the supplied fields of a schema_to_type run whose conversion fails
FailedFields ==
    LET params == Signature(rc_type.name)
    IN  {n \in (DOMAIN rc_value.o) \cap ParamNames(params) :
           /\ ParamOf(params, n).annotation \notin {Empty, TAny}
           /\ ConvertField(rc_m, ParamOf(params, n).annotation, rc_value.o[n],
                           OuterGlobals, rc_strict).err # "none"}

UnionDone == RcDone("instantiate_type") /\ rc_type.k = "Union"

\* the value already is an instance of one of the union's alternatives
ExactMatch ==
    \E i \in 1 .. Len(rc_type.args) :
       IsType(rc_type.args[i]) /\ IsInstance(rc_value, rc_type.args[i])

(* C13: for a union target, a raw value whose runtime type already is one  *)
(* of the alternatives is returned unchanged, whatever the position of     *)
(* that alternative and whether or not an earlier alternative could        *)
(* convert the value.                                                      *)
C13_ExactMatchUnchanged ==
    UnionDone /\ ExactMatch => rc_out = Ok(rc_value)

\* Union[int, str] with the string "1", which int would convert, gave "1"
C13_Witness ==
    /\ UnionDone /\ rc_type = TUnion(<<TInt, TStr>>)
    /\ rc_value = VStr("1") /\ rc_out = Ok(VStr("1"))

\* what alternative i alone makes of the value
Alternative(i) == instantiate_type(rc_m, rc_type.args[i], rc_value, OuterGlobals)

(* C14: for a union target with no exact match, reconstruction fails with  *)
(* ValueError when every alternative's reconstruction raises, and returns  *)
(* no value then; an alternative that raises does not end the trial: the   *)
(* result is that of the first alternative that succeeds.                  *)
C14_AllAlternativesFail ==
    UnionDone /\ ~ExactMatch
      => /\ (\A i \in 1 .. Len(rc_type.args) : Alternative(i).err # "none")
              => rc_out = Raise("ValueError")
         /\ \A i \in 1 .. Len(rc_type.args) :
              /\ Alternative(i).err = "none"
              /\ \A j \in 1 .. (i - 1) : Alternative(j).err # "none"
              => rc_out = Alternative(i)

\* Optional[int] with "a": both alternatives raised and the run ended in
\* ValueError
C14_Witness ==
    /\ UnionDone /\ rc_type = TOptional(TInt) /\ rc_value = VStr("a")
    /\ Alternative(1).err # "none" /\ Alternative(2).err # "none"
    /\ rc_out.err = "ValueError"

\* Union[int, str] with None: int raised, and str was still tried
C14_LaterAlternativeTried ==
    /\ UnionDone /\ rc_type = TUnion(<<TInt, TStr>>) /\ rc_value = VNull
    /\ Alternative(1).err # "none"
    /\ rc_out = Ok(VStr("None"))

----------------------------------------------------------------------------
(* Properties of function_call *)

\* the document the request carries
ParsedDoc == IF fc_from_json THEN fc_raw.doc ELSE fc_raw

\* the message tags of the five causes
NotFoundTag == "Function " \o fc_name \o " not found."
InvalidJsonTag == "Arguments are not valid JSON."
SchemaMismatchTag == "Arguments do not match the schema."
SignatureMismatchTag == "Arguments do not match function signature."
InvocationFailedTag == "Function call failed."

\* a FunctionCallError whose message starts with the tag
HasTag(error, tag) ==
    /\ error.err = "FunctionCallError"
    /\ \E e \in {"KeyError", "JSONDecodeError", "TypeError", "ValueError", "NameError",
                 "ValidationError", "AssertionError"} \cup {x.type : x \in Excs} :
         \E text \in {"<" \o e \o ">", "'" \o fc_name \o "'", "Unterminated string"}
                       \cup {x.text : x \in Excs} :
            error.val.s = tag \o " " \o text

\* structural validation of one value against the schema of an annotation:
\* the JSON type only
JsonTypeOk(t, v) ==
    CASE t.k = "int" -> v.k = "int"
      [] t.k = "float" -> v.k \in {"int", "float"}
      [] t.k = "str" -> v.k = "str"
      [] t.k = "bool" -> v.k = "bool"
      [] t.k = "NoneType" -> v.k = "null"
      [] t.k = "class" -> v.k = "dict"
      [] OTHER -> TRUE

\* structural validation of the arguments against the parameter schema:
\* an object that has every required property, each property of its JSON type
SchemaMatches(params, doc) ==
    /\ doc.k = "dict"
    /\ Required(params) \subseteq DOMAIN doc.o
    /\ \A n \in (DOMAIN doc.o) \cap ParamNames(params) :
         JsonTypeOk(ParamOf(params, n).annotation, doc.o[n])

\* the stage at which the request fails first, in the order resolve, parse,
\* validate, reconstruct, invoke
ExpectedTag ==
    IF fc_name \notin Registry THEN NotFoundTag
    ELSE IF fc_from_json /\ json_loads(fc_raw).err # "none" THEN InvalidJsonTag
    ELSE IF /\ fc_validate /\ fc_name \notin ClassNames
            /\ ~SchemaMatches(Signature(fc_name), ParsedDoc)
    THEN SchemaMismatchTag
    ELSE IF schema_to_type("functions", RegistryEntry(fc_name), ParsedDoc, {}, TRUE).err # "none"
    THEN SignatureMismatchTag
    ELSE InvocationFailedTag

(* C1: a failed call reports exactly one cause, that of the earliest       *)
(* failing stage in the order resolve (NotFound), parse (InvalidJson),     *)
(* validate (SchemaMismatch), reconstruct and bind (SignatureMismatch),    *)
(* invoke (InvocationFailed).                                              *)
C1_EarliestCause ==
    fc_pc = "raised" /\ (fc_name \in FunctionNames => Wrappable(fc_name))
                     /\ IsException(fc_exc.type)
      => HasTag(fc_error, ExpectedTag)

(* C2: function_call returns a result or raises FunctionCallError; no      *)
(* other exception leaves it, whichever step fails.                        *)
C2_OnlyFunctionCallError ==
    fc_pc = "raised" => fc_error.err = "FunctionCallError"

(* C3: with validate, arguments whose values do not match the declared     *)
(* parameter types fail with the SchemaMismatch cause, tag "Arguments do   *)
(* not match the schema.", and the body of the callable does not run.      *)
C3_SchemaMismatch ==
    /\ fc_pc \in {"returned", "raised"} /\ fc_validate
    /\ fc_name \in FunctionNames /\ Wrappable(fc_name)
    /\ ParsedDoc.k = "dict"
    /\ \E n \in (DOMAIN ParsedDoc.o) \cap ParamNames(Signature(fc_name)) :
         ~JsonTypeOk(ParamOf(Signature(fc_name), n).annotation, ParsedDoc.o[n])
    => /\ fc_pc = "raised"
       /\ HasTag(fc_error, SchemaMismatchTag)
       /\ fc_ran = 0

\* the call reached the body of `fails`, which raised fc_exc
BodyRaised == fc_pc = "raised" /\ fc_name = "fails" /\ fc_calls = 1

Stages == <<"resolve", "wrap", "parse", "reconstruct", "invoke", "serialize">>
StageNo(s) == CHOOSE i \in 1 .. Len(Stages) : Stages[i] = s

----------------------------------------------------------------------------
(* Properties of schema building *)

SchDone == sch_pc = "done" /\ sch_function.k = "declared"
SchParams == ParamsOf(sch_function)
SchDocParam(i) == DocParamFor(SchParams[i].name, docstring_to_params(DocOf(sch_function)))
InRequired(n) == \E j \in 1 .. Len(sch_out.required) : sch_out.required[j] = n

(* C6: in the schema parse_function_params returns, a parameter's name is  *)
(* in `required` if and only if the signature gives it no default,         *)
(* whatever the docstring says about optionality or defaults; when every   *)
(* parameter has a default there is no required entry.                     *)
C6_RequiredIffNoDefault ==
    SchDone /\ sch_out.err = "none"
      => /\ \A i \in 1 .. Len(SchParams) :
              InRequired(SchParams[i].name) <=> SchParams[i].default = Empty
         /\ (\A i \in 1 .. Len(SchParams) : SchParams[i].default # Empty)
              => sch_out.required = <<>>

\* the docstring calls arg1 optional with a default, the signature gives it
\* none, and arg1 is required; arg2 has a default and is not
C6_Witness ==
    /\ SchDone /\ sch_out.err = "none"
    /\ Len(SchParams) = 2
    /\ SchParams[1].default = Empty /\ SchParams[2].default # Empty
    /\ SchDocParam(1).default # Empty
    /\ sch_out.required = <<"arg1">>

\* the default's runtime type matches the declared type
RECURSIVE TypeMatches(_, _)
TypeMatches(v, t) ==
    CASE IsType(t) -> IsInstance(v, t)
      [] t.k = "None" -> v = VNull
      [] t.k = "Union" -> \E i \in 1 .. Len(t.args) : TypeMatches(v, t.args[i])
      [] t.k = "List" -> v.k = "list" /\ \A i \in 1 .. Len(v.l) : TypeMatches(v.l[i], t.args[1])
      [] OTHER -> FALSE

\* parameter i has a signature default and a declared type
Defaulted(i) ==
    SchParams[i].default # Empty /\ AnnotationOf(SchParams[i], SchDocParam(i)) # Empty

(* C10 as stated: building the parameter schema never raises at a          *)
(* parameter that has both a signature default and a declared type; the    *)
(* fragment of such a parameter has a literal default if and only if the   *)
(* default's runtime type matches the declared type, and each mismatch     *)
(* logs a warning.                                                         *)
C10_DefaultNeverRaises ==
    SchDone
      => /\ sch_out.err # "none" => ~Defaulted(sch_out.at)
         /\ sch_out.err = "none"
              => /\ \A i \in 1 .. Len(SchParams) :
                      Defaulted(i) =>
                        (sch_out.properties[i].frag.default # NoDefault
                           <=> TypeMatches(SchParams[i].default,
                                           AnnotationOf(SchParams[i], SchDocParam(i))))
                 /\ sch_out.warns =
                      Cardinality({i \in 1 .. Len(SchParams) :
                                     Defaulted(i) /\ sch_out.properties[i].frag.default = NoDefault})

\* the declared type is a list of int, the default is the empty list, and
\* isinstance(default, annotation) raised TypeError
C10_ListDefaultRaises ==
    /\ SchDone /\ sch_out.err = "TypeError" /\ sch_out.at = 1
    /\ SchParams[1].annotation = TList(TInt) /\ SchParams[1].default = VList(<<>>)

\* where the build returns, a default is written exactly when it matches
C10_WrittenIffMatches ==
    SchDone /\ sch_out.err = "none"
      => \A i \in 1 .. Len(SchParams) :
            Defaulted(i) =>
              (sch_out.properties[i].frag.default # NoDefault
                 <=> TypeMatches(SchParams[i].default, AnnotationOf(SchParams[i], SchDocParam(i))))
\* parse_function_responses has returned
RespDone == sch_pc = "done" /\ sch_function.k = "returning"

\* a type expression that resolves to nothing: a name or a forward reference
\* that names nothing
Unresolvable(t) ==
    \/ t.k = "name" /\ EvalTypeName(t.name).k = "name"
    \/ t.k = "ForwardRef" /\ t.name \notin ClassNames

(* C11: schema building never raises because a type cannot be resolved:   *)
(* a parameter slot or return slot whose type expression is unresolvable   *)
(* gets the empty schema {} as its fragment, and the rest of the schema is *)
(* still produced.                                                         *)
C11_UnresolvableDegrades ==
    /\ SchDone /\ (\E i \in 1 .. Len(SchParams) :
                      Unresolvable(AnnotationOf(SchParams[i], SchDocParam(i))))
         => /\ sch_out.err = "none"
            /\ Len(sch_out.properties) = Len(SchParams)
            /\ \A i \in 1 .. Len(SchParams) :
                 Unresolvable(AnnotationOf(SchParams[i], SchDocParam(i)))
                   => sch_out.properties[i].frag.schema = EmptySchema
    /\ RespDone /\ Unresolvable(ReturnType(sch_function))
         => sch_out.err = "none" /\ sch_out.content = EmptySchema

\* the return slot alone: an unresolvable return type never raises, the
\* failure is logged and the response has no content
C11_ReturnSlotOmitted ==
    RespDone /\ Unresolvable(ReturnType(sch_function))
      => sch_out.err = "none" /\ sch_out.content = NoContent /\ sch_out.errors = 1
\* function_call has returned or raised
FcEnded == fc_pc \in {"returned", "raised"}

(* C12: a call never mutates data it shares with its caller: with          *)
(* from_json false the argument object the caller supplied, with every     *)
(* object nested in it, is after the call what it was before, whether the  *)
(* call succeeds or fails.                                                 *)
C12_CallerObjectUnchanged ==
    FcEnded /\ ~fc_from_json => fc_caller = fc_raw
\* the request names a registered callable and its arguments are an object
KnownWithObject ==
    /\ fc_name \in Registry
    /\ fc_from_json => json_loads(fc_raw).err = "none"
    /\ ParsedDoc.k = "dict"

(* C15: a call to a known callable whose arguments omit a parameter that   *)
(* has no default fails with the SignatureMismatch cause, "Arguments do    *)
(* not match function signature.", and the callable is not executed.       *)
C15_MissingRequired ==
    FcEnded /\ KnownWithObject
            /\ ~(Required(Signature(fc_name)) \subseteq DOMAIN ParsedDoc.o)
      => /\ fc_pc = "raised"
         /\ HasTag(fc_error, SignatureMismatchTag)
         /\ fc_ran = 0 /\ fc_calls = 0

(* C16: a call whose arguments contain a field that names no parameter of  *)
(* the callable fails with the SignatureMismatch cause, also when every    *)
(* declared parameter is supplied with a valid value; the extra field is   *)
(* never dropped.                                                          *)
C16_UnexpectedField ==
    FcEnded /\ KnownWithObject
            /\ ~(DOMAIN ParsedDoc.o \subseteq ParamNames(Signature(fc_name)))
      => /\ fc_pc = "raised"
         /\ HasTag(fc_error, SignatureMismatchTag)

C18_InvalidJson ==
    FcEnded /\ fc_name \in Registry /\ fc_from_json /\ json_loads(fc_raw).err # "none"
      => /\ fc_pc = "raised"
         /\ HasTag(fc_error, InvalidJsonTag)
         /\ fc_ran = 0 /\ fc_calls = 0
\* what json.dumps makes of a result, or of its wrapping where it has no
\* JSON form
Serialized(result) ==
    IF Serializable(result) THEN JsonText(JsonForm(result))
    ELSE JsonText(VDict([n \in {"result"} |-> VStr(PyStr(result))]))

Bound == fc_bound # VNull

(* C20: when the arguments are bound, every parameter absent from them     *)
(* that has a declared default is passed with exactly that default, and a  *)
(* supplied value is never replaced by a default: test(a: int, b: bool =   *)
(* False) returns "false" for {a: 1}, "true" for {a: 1, b: true} and       *)
(* "false" for {a: -1, b: true}.                                           *)
C20_DefaultsApplied ==
    /\ Bound =>
         \A i \in 1 .. Len(Signature(fc_name)) :
            LET p == Signature(fc_name)[i]
            IN  /\ p.name \in DOMAIN fc_bound.o
                /\ fc_bound.o[p.name] =
                     IF p.name \in DOMAIN ParsedDoc.o THEN fc_arguments.o[p.name]
                     ELSE p.default
    /\ fc_pc = "returned" /\ fc_name = "test" /\ fc_from_json /\ fc_return_json
         => /\ ParsedDoc = VDict([n \in {"a"} |-> VInt(1)])
                 => fc_result = JsonText(VBool(FALSE))
            /\ ParsedDoc = VDict([n \in {"a", "b"} |-> IF n = "a" THEN VInt(1) ELSE VBool(TRUE)])
                 => fc_result = JsonText(VBool(TRUE))
            /\ ParsedDoc = VDict([n \in {"a", "b"} |-> IF n = "a" THEN VInt(-1) ELSE VBool(TRUE)])
                 => fc_result = JsonText(VBool(FALSE))

\* test was called with {a: 1} only, b was bound to False and "false" returned
C20_Witness ==
    /\ fc_pc = "returned" /\ fc_name = "test" /\ fc_from_json /\ fc_return_json
    /\ ParsedDoc = VDict([n \in {"a"} |-> VInt(1)])
    /\ fc_bound.o.b = VBool(FALSE)
    /\ fc_result = JsonText(VBool(FALSE))

----------------------------------------------------------------------------
(* Properties of the JsonSchema wrapper *)

\* the wrappers that exist
Heap == 1 .. Len(desc_heap)

Sequential == make_schema(memo_wrapper)

(* C22: under every interleaving of concurrent requests for the __schema__ *)
(* of one wrapper, each doing check-cache, build, store-cache without a    *)
(* lock, every request returns a schema equal to the one a single          *)
(* sequential request returns (or raises what it raises), and the cache    *)
(* holds nothing or a completely built schema, never a partial one.        *)
C22_ConcurrentRequestsAgree ==
    /\ \A t \in DOMAIN memo_pc :
         memo_pc[t] \in {"returned", "raised"} => memo_ret[t] = Sequential
    /\ memo_cache # VNull => Sequential.err = "none" /\ memo_cache = Sequential.val

\* two threads both found the cache empty and built; one has returned, the
\* other is about to store its own dict
C22_Witness ==
    /\ memo_pc # <<>>
    /\ memo_pc[1] = "returned" /\ memo_pc[2] = "store"
    /\ memo_reqs[1] = 1 /\ memo_reqs[2] = 1
    /\ memo_ret[1].val.responses # NoKey
    /\ memo_ret[1].val.description # ""

\* a schema document without the receiver's property
WithoutReceiver(doc) ==
    [doc EXCEPT !.parameters =
       [@ EXCEPT !.properties = Tail(@),
                 !.required = IF @ # <<>> /\ @[1] = "self" THEN Tail(@) ELSE @]]

\* how many schemas the wrappers bound to instance i have built
RECURSIVE BuildsFor(_, _)
BuildsFor(i, x) ==
    IF x = 0 THEN 0
    ELSE (IF desc_heap[x].owner = i THEN desc_heap[x].builds ELSE 0) + BuildsFor(i, x - 1)

(* C30: the first access to a schema-decorated method through an instance  *)
(* stores the bound wrapper on that instance, and every later access       *)
(* through the same instance returns that same wrapper, so that its schema *)
(* is built at most once per instance; access through the class stores     *)
(* nothing; distinct instances never share a bound wrapper; the bound      *)
(* wrapper's schema equals the unbound method's schema without the         *)
(* receiver parameter.                                                     *)
C30_BoundWrapperKept ==
    /\ \A i \in DOMAIN desc_dict :
         /\ desc_stored[i] # 0 => desc_dict[i] = desc_stored[i]
         /\ desc_dict[i] # 0 => desc_heap[desc_dict[i]].owner = i
         /\ BuildsFor(i, Len(desc_heap)) <= 1
    /\ desc_op = "instance" => desc_at = desc_stored[desc_heap[desc_at].owner]
    /\ \A x \in Heap :
         desc_heap[x].owner # 0 /\ desc_heap[x].cached # VNull
         => desc_heap[x].cached = WithoutReceiver(make_schema(desc_heap[1].w).val)

\* a second access through an instance whose bound wrapper has built its
\* schema, after an access through the class and one through the other instance
C30_Witness ==
    /\ desc_op = "instance"
    /\ desc_at = 2 /\ desc_heap[2].owner = 1 /\ desc_heap[2].builds = 1
    /\ Len(desc_heap[2].cached.parameters.properties) = 2
    /\ Len(desc_heap) = 3 /\ desc_heap[3].owner = 2
    /\ desc_dict[2] = 3

\* the content schema of the return slot: the schema of the return type where
\* it has one that is not empty
ContentSchema == type_to_schema(ReturnType(sch_function))
HasContent == ContentSchema.err = "none" /\ ContentSchema.val # EmptySchema
ReturnText == sch_function.docreturns.description

(* C23 as stated: the response section is present if and only if a         *)
(* content schema or descriptive return text exists; when present its      *)
(* description is the documented return text, or "OK" when there is none   *)
(* or descriptions are disabled, and it carries content only when the      *)
(* return type yields a non-empty schema.                                  *)
C23_PresentIffContentOrText ==
    RespDone =>
      /\ sch_out.present <=> (HasContent \/ ReturnText # "")
      /\ sch_out.present =>
           /\ sch_out.description =
                (IF ReturnText # "" /\ sch_descriptions THEN ReturnText ELSE "OK")
           /\ sch_out.content = (IF HasContent THEN ContentSchema.val ELSE NoContent)

(* C23 as the code has it: the response section is present if and only if  *)
(* a content schema exists, or descriptive return text exists and          *)
(* descriptions are enabled; when present its description is the           *)
(* documented return text, or "OK" when there is none or descriptions are  *)
(* disabled, and it carries content only when the return type yields a     *)
(* non-empty schema; otherwise the section is omitted entirely.            *)
C23_PresentIffContentOrEnabledText ==
    RespDone =>
      /\ sch_out.present <=> (HasContent \/ (ReturnText # "" /\ sch_descriptions))
      /\ sch_out.present =>
           /\ sch_out.description =
                (IF ReturnText # "" /\ sch_descriptions THEN ReturnText ELSE "OK")
           /\ sch_out.content = (IF HasContent THEN ContentSchema.val ELSE NoContent)
      /\ ~sch_out.present => sch_out.content = NoContent /\ sch_out.description = ""

\* return text without a content schema, descriptions disabled: no section
C23_Witness ==
    /\ RespDone /\ ~sch_descriptions /\ ReturnText # "" /\ ~HasContent
    /\ ~sch_out.present

----------------------------------------------------------------------------
(* Further properties of reconstruction *)

\* the primitive types: string, number, integer, boolean, null
PrimitiveTypes == {TStr, TFloat, TInt, TBool, TNone}

\* type(v) is t
TypeIs(v, t) ==
    CASE t.k = "int" -> v.k = "int"
      [] t.k = "float" -> v.k = "float"
      [] t.k = "str" -> v.k = "str"
      [] t.k = "bool" -> v.k = "bool"
      [] t.k = "NoneType" -> v.k = "null"
      [] OTHER -> FALSE

\* the JSON form of v read back: json.loads(json.dumps(v))
JsonOf(v) == json_loads(json_dumps(v).val).val

RECURSIVE Expected(_, _)
Expected(t, v) ==
    CASE t.k = "class" /\ v.k = "dict" ->
           VInst(t.name,
                 [n \in ParamNames(Signature(t.name)) |->
                    IF n \in DOMAIN v.o
                    THEN Expected(ParamOf(Signature(t.name), n).annotation, v.o[n])
                    ELSE ParamOf(Signature(t.name), n).default])
      [] t.k = "ForwardRef" -> Expected(TClass(t.name), v)
      [] t.k = "Union" /\ v # VNull -> Expected(t.args[1], v)
      [] t.k = "List" /\ v.k = "list" ->
           VList([i \in 1 .. Len(v.l) |-> Expected(t.args[1], v.l[i])])
      [] t.k = "Dict" /\ v.k = "dict" ->
           VDict([n \in DOMAIN v.o |-> Expected(t.args[2], v.o[n])])
      [] OTHER -> v

\* v is the raw form of a value of type t: JSON objects with the required
\* fields and no others where the type has a class, integers where it has int
RECURSIVE WellFormed(_, _)
WellFormed(t, v) ==
    CASE t.k = "class" ->
           /\ v.k = "dict"
           /\ Required(Signature(t.name)) \subseteq DOMAIN v.o
           /\ DOMAIN v.o \subseteq ParamNames(Signature(t.name))
           /\ \A n \in DOMAIN v.o : WellFormed(ParamOf(Signature(t.name), n).annotation, v.o[n])
      [] t.k = "ForwardRef" -> WellFormed(TClass(t.name), v)
      [] t.k = "Union" -> v = VNull \/ WellFormed(t.args[1], v)
      [] t.k = "List" -> v.k = "list" /\ \A i \in 1 .. Len(v.l) : WellFormed(t.args[1], v.l[i])
      [] t.k = "Dict" -> v.k = "dict" /\ \A n \in DOMAIN v.o : WellFormed(t.args[2], v.o[n])
      [] OTHER -> TypeIs(v, t)

\* a composite occurs in the type
RECURSIVE HasComposite(_)
HasComposite(t) ==
    CASE t.k \in {"class", "ForwardRef"} -> TRUE
      [] t.k \in {"Union", "List", "Dict"} -> \E i \in 1 .. Len(t.args) : HasComposite(t.args[i])
      [] OTHER -> FALSE

C26_ExactMatchShortCircuit ==
    RcDone("instantiate_type") /\ IsType(rc_type) /\ IsInstance(rc_value, rc_type)
      => rc_out = Ok(rc_value)

\* the target's native conversion raises on the raw value; the null type
\* converts nothing but null
NativeRaises(t, v) == IF t = TNone THEN v # VNull ELSE Construct(t, v).err # "none"

\* what the claim counts as a failing conversion
Mismatch(t, v) == NativeRaises(t, v) \/ (v = VNull /\ t # TNone)

\* the containers of primitives among the targets, and the elements and
\* element types of a raw value under one
PrimitiveContainer(t) ==
    /\ t.k \in {"List", "Set", "Dict", "Tuple"}
    /\ \A i \in 1 .. Len(t.args) : t.args[i] \in PrimitiveTypes \cup {TEllipsis}
ElementsOf(t, v) == IF t.k = "Dict" THEN ValuesIn(v.o, Items(v)) ELSE v.l
ElementType(t, items, i) ==
    IF t.k = "Dict" THEN t.args[2] ELSE TupleTypes(t.args, items)[i]
RightShape(t, v) ==
    /\ IF t.k = "Dict" THEN v.k = "dict" ELSE v.k = "list"
    /\ t.k = "Tuple" /\ ~(Len(t.args) = 2 /\ t.args[2] = TEllipsis) /\ Len(t.args) # 1
         => Len(v.l) = Len(t.args)

(* C27: for a primitive target, reconstruction fails with ValueError       *)
(* exactly when the target's native conversion raises on the raw value,    *)
(* a null raw value for a non-null target and a non-null raw value for the *)
(* null target included; a conversion that succeeds with a falsy result    *)
(* (0, empty string, false) is returned as a success; the same holds       *)
(* element-wise inside lists, tuples, sets and mappings, where one failing *)
(* element fails the whole container.                                      *)
C27_ConversionFailure ==
    /\ RcDone("instantiate_type") /\ rc_type \in PrimitiveTypes
         => /\ rc_out.err = "ValueError" <=> Mismatch(rc_type, rc_value)
            /\ rc_out.err \in {"none", "ValueError"}
            /\ rc_out.err = "none" /\ rc_type # TNone => rc_out = Construct(rc_type, rc_value)
    /\ RcDone("instantiate_type") /\ PrimitiveContainer(rc_type) /\ RightShape(rc_type, rc_value)
         => /\ rc_out.err = "ValueError"
                 <=> \E i \in 1 .. Len(ElementsOf(rc_type, rc_value)) :
                        Mismatch(ElementType(rc_type, ElementsOf(rc_type, rc_value), i),
                                 ElementsOf(rc_type, rc_value)[i])
            /\ rc_out.err \in {"none", "ValueError"}

\* C27 on every input but the two it fails on: the infinite number for the
\* integer target, whose OverflowError is not caught, and null for the string
\* and boolean targets, which str and bool convert
C27_OtherInputs ==
    /\ RcDone("instantiate_type") /\ rc_type \in PrimitiveTypes
       /\ ~(rc_type = TInt /\ rc_value = VInf)
       /\ ~(rc_type \in {TStr, TBool} /\ rc_value = VNull)
         => /\ rc_out.err = "ValueError" <=> Mismatch(rc_type, rc_value)
            /\ rc_out.err \in {"none", "ValueError"}
            /\ rc_out.err = "none" /\ rc_type # TNone => rc_out = Construct(rc_type, rc_value)
    /\ RcDone("instantiate_type") /\ PrimitiveContainer(rc_type) /\ RightShape(rc_type, rc_value)
         => /\ rc_out.err = "ValueError"
                 <=> \E i \in 1 .. Len(ElementsOf(rc_type, rc_value)) :
                        Mismatch(ElementType(rc_type, ElementsOf(rc_type, rc_value), i),
                                 ElementsOf(rc_type, rc_value)[i])
            /\ rc_out.err \in {"none", "ValueError"}

\* reconstructing v against t comes to a forward reference
RECURSIVE MeetsRef(_, _)
MeetsRef(t, v) ==
    CASE t.k = "ForwardRef" -> TRUE
      [] t.k = "class" ->
           /\ v.k = "dict"
           /\ \E n \in DOMAIN v.o \cap ParamNames(Signature(t.name)) :
                MeetsRef(ParamOf(Signature(t.name), n).annotation, v.o[n])
      [] t.k = "Union" -> v # VNull /\ \E i \in 1 .. Len(t.args) : MeetsRef(t.args[i], v)
      [] t.k = "List" -> v.k = "list" /\ \E i \in 1 .. Len(v.l) : MeetsRef(t.args[1], v.l[i])
      [] t.k = "Dict" -> v.k = "dict" /\ \E n \in DOMAIN v.o : MeetsRef(t.args[2], v.o[n])
      [] OTHER -> FALSE

(* C28: when a resolution scope is supplied, every forward reference met   *)
(* during the reconstruction, at any nesting depth and inside any          *)
(* container or composite, is resolved against that same scope, never      *)
(* against the caller's ambient namespace: a reference to a name the       *)
(* supplied scope lacks fails the reconstruction.                          *)
C28_ScopeThreaded ==
    /\ RcDone("instantiate_type") /\ rc_scope # {} /\ WellFormed(rc_type, rc_value)
       /\ MeetsRef(rc_type, rc_value)
         => (rc_out.err = "none" <=> "Node" \in rc_scope)
    /\ ( /\ RcDone("schema_to_type") /\ rc_scope # {} /\ rc_strict /\ rc_type.k = "function"
         /\ \E n \in DOMAIN rc_value.o \cap ParamNames(Signature(rc_type.name)) :
              /\ WellFormed(ParamOf(Signature(rc_type.name), n).annotation, rc_value.o[n])
              /\ MeetsRef(ParamOf(Signature(rc_type.name), n).annotation, rc_value.o[n]) )
         => ("Node" \notin rc_scope => rc_out.err # "none")

\* C28 where no composite is met by a direct call of its class
C28_ScopeDroppedUnderB ==
    RcDone("instantiate_type") /\ rc_type = TClass("B") /\ rc_scope = {"ClassTest"}
    /\ WellFormed(rc_type, rc_value) /\ MeetsRef(rc_type, rc_value)
      => rc_out.err # "none"

----------------------------------------------------------------------------
(* Properties of collect_functions *)

\* a call of collect_functions has ended
ColDone == col_pc = "done"

\* the names of the scope the call went through
ColScope == ScopeOrOuter(col_args.scope)

\* the precedence of the claim: a function, a class or a dataclass (a class
\* that dataclass decorated) whose include flag is true
Selected(name) ==
    LET fn == ScopeValue(name)
    IN  /\ name \notin col_args.blacklist
        /\ \/ name \in col_args.whitelist
           \/ /\ ~HasBuiltinModule(fn)
              /\ fn.module = scope_name \/ col_args.collect_imports
              /\ \/ IsFunction(fn) /\ col_args.include_functions
                 \/ IsClass(fn) /\ col_args.include_classes
                 \/ IsClass(fn) /\ fn.dataclass /\ col_args.include_dataclasses

(* C29: collect_functions returns exactly the names of the scope selected  *)
(* by this precedence: a blacklisted name is never returned, even if       *)
(* whitelisted; otherwise a whitelisted name is always returned, whatever  *)
(* the include flags, whether or not it is a builtin and wherever it was   *)
(* defined; otherwise a name is returned iff its value is not a builtin,   *)
(* is defined in the scope's own module (or collect_imports is true), and  *)
(* is a function, class or dataclass whose include flag is true. With      *)
(* add_schema every returned value carries a schema attribute.             *)
C29_Precedence ==
    ColDone
      => /\ col_out.err = "none"
         /\ col_out.names = {n \in ColScope : Selected(n)}
         /\ col_args.add_schema => col_out.schema

\* C29 for the scopes without an instance of a dataclass, and with no name on
\* the whitelist that is bound to an object json_schema refuses
C29_CallablesOnly ==
    ColDone /\ "foo" \notin ColScope
    /\ ~(col_args.add_schema /\ "x" \in ColScope /\ "x" \in col_args.whitelist \ col_args.blacklist)
      => /\ col_out.err = "none"
         /\ col_out.names = {n \in ColScope : Selected(n)}
         /\ col_args.add_schema => col_out.schema

=============================================================================
